---------------------------- MODULE Spec2Model ----------------------------
(***************************************************************************)
(* A model of the ask/tell schedulers of yamakan: the asynchronous         *)
(* successive halving optimizer (src/src/optimizers/asha.rs) and the       *)
(* Hyperband optimizer built from it (src/src/optimizers/hyperband.rs),    *)
(* driven by a caller that asks for observations, evaluates them and       *)
(* tells the results back in any order.                                    *)
(***************************************************************************)
EXTENDS Integers, Sequences, FiniteSets, TLC

(***************************************************************************)
(* Bounds of the model.                                                    *)
(***************************************************************************)
\* number of identifiers the serial generator may hand out in one run
MaxIds == 2
\* the same, for a run on a Hyperband optimizer (one more than its brackets)
MaxHbIds == 3
\* the largest consumption and the largest max_budget for which the rung
\* number and the number of brackets are computed
MaxConsumption == 250
\* evaluation values are drawn from 1..MaxValue (smaller is better)
MaxValue == 2
\* the number of bits of an unsigned word of a Budget (64 in the source)
WordBits == 3
\* number of identifiers the generator may hand out to a Nelder-Mead run
MaxRounds == 10
\* number of identifiers the generator may hand out to an OSHA run
MaxOshaIds == 6
\* number of evaluations of one optimizer of an OSHA run
MaxEvals == 11
\* number of times tell calls activate again after it returned false
MaxActivations == 2

Values == 1..MaxValue

(***************************************************************************)
(* Scheduler constructions explored by the model.  max_budget is the       *)
(* argument of AshaOptimizer::with_options, r/s/eta/max_suspended are the  *)
(* fields of AshaOptions; cons is the set of budget consumptions the       *)
(* caller may report for this construction.                                *)
(***************************************************************************)
CfgScenario ==
  [max_budget |-> 20, r |-> 10, s |-> 0, eta |-> 2, max_suspended |-> 2,
   cons |-> {10, 20, 40}]

CfgBracket ==
  [max_budget |-> 8, r |-> 1, s |-> 1, eta |-> 2, max_suspended |-> 3,
   cons |-> {2, 4}]

CfgThirds ==
  [max_budget |-> 6, r |-> 2, s |-> 0, eta |-> 3, max_suspended |-> 1,
   cons |-> {2, 6}]

Configs == { CfgScenario, CfgBracket, CfgThirds }

\* A construction that keeps one suspended entry and promotes out of a
\* rung of two, for the runs on the counter of suspended entries.
CfgTight ==
  [max_budget |-> 4, r |-> 1, s |-> 0, eta |-> 2, max_suspended |-> 1,
   cons |-> {1, 2}]

SuspendedConfigs == { CfgTight, CfgThirds, CfgScenario }

\* A construction with eta = 3 whose caller reports the consumption 3^5.
CfgPowerBoundary ==
  [max_budget |-> 729, r |-> 1, s |-> 0, eta |-> 3, max_suspended |-> 3,
   cons |-> {81, 243}]

\* Constructions whose first budget r * eta^s exceeds max_budget.
CfgOverMin ==
  [max_budget |-> 5, r |-> 10, s |-> 0, eta |-> 2, max_suspended |-> 2,
   cons |-> {5, 10}]

CfgBracketOverMin ==
  [max_budget |-> 6, r |-> 4, s |-> 1, eta |-> 2, max_suspended |-> 2,
   cons |-> {4, 6}]

UncheckedConfigs == { CfgOverMin, CfgBracketOverMin }

\* Constructions whose max_budget is not the first budget of a rung, so
\* that the last rung holds consumptions below and above max_budget.
CfgOffBoundary ==
  [max_budget |-> 3, r |-> 1, s |-> 0, eta |-> 2, max_suspended |-> 2,
   cons |-> {2, 3}]

CfgOffBoundaryThirds ==
  [max_budget |-> 5, r |-> 1, s |-> 0, eta |-> 3, max_suspended |-> 2,
   cons |-> {4, 5}]

OffBoundaryConfigs == { CfgOffBoundary, CfgOffBoundaryThirds }

\* Hyperband constructions: max_budget is the argument of
\* HyperbandOptimizer::with_options, r/eta/max_susp are the fields of
\* HyperbandOptions.  Both have the two brackets s = 0 and s = 1.
CfgHyperband ==
  [max_budget |-> 2, r |-> 1, eta |-> 2, max_susp |-> 2, cons |-> {1, 2, 3}]

CfgHyperbandOne ==
  [max_budget |-> 3, r |-> 1, eta |-> 2, max_susp |-> 1, cons |-> {1, 3}]

HyperbandConfigs == { CfgHyperband, CfgHyperbandOne }

(***************************************************************************)
(* Arithmetic helpers.                                                     *)
(***************************************************************************)
Min(a, b) == IF a <= b THEN a ELSE b

SetMax(S) == CHOOSE x \in S : \A y \in S : y <= x

RECURSIVE Pow(_, _)
\* usize::pow
Pow(b, e) == IF e = 0 THEN 1 ELSE b * Pow(b, e - 1)

RECURSIVE ExactLogFloor(_, _)
\* the largest k with base^k <= n, for n >= 1 and base >= 2
ExactLogFloor(n, base) ==
  IF n < base THEN 0 ELSE 1 + ExactLogFloor(n \div base, base)

\* The arguments below 200000 for which the double-precision quotient
\* ln(n) / ln(base) falls just below the exact integer logarithm, so that
\* the truncating cast yields one less (bases 2..10).
FloatLogShort == { <<243, 3>>, <<59049, 3>>, <<59049, 9>>, <<1000, 10>> }

\* (n as f64).log(base as f64) as usize
FloatLogFloor(n, base) ==
  IF <<n, base>> \in FloatLogShort
    THEN ExactLogFloor(n, base) - 1
    ELSE ExactLogFloor(n, base)

(***************************************************************************)
(* Budget and Budgeted<P>.                                                 *)
(***************************************************************************)
\* Budget::new(amount)
BudgetNew(amount) == [amount |-> amount, consumption |-> 0]

\* Budget::set_amount(n)
SetAmount(b, n) == [b EXCEPT !.amount = n]

\* Budget::remaining: the part of the amount not consumed yet
Remaining(b) ==
  IF b.consumption <= b.amount THEN b.amount - b.consumption ELSE 0

\* Budget::excess: the consumption beyond the amount
Excess(b) ==
  IF b.amount <= b.consumption THEN b.consumption - b.amount ELSE 0

\* the value () of an observation that is not evaluated yet
Unit == << >>

\* Budgeted::new(budget, inner)
BudgetedNew(budget, inner) == [budget |-> budget, inner |-> inner]

(***************************************************************************)
(* Rung entries and rungs.  A rung is a map from observation ids to        *)
(* entries; rung number k is element k + 1 of the sequence of rungs.       *)
(***************************************************************************)
Suspended(param, value) ==
  [tag |-> "Suspended", param |-> param, value |-> value]

Finished(value) == [tag |-> "Finished", value |-> value]

\* RungEntry::is_suspended
is_suspended(e) == e.tag = "Suspended"

\* Rung::new
RungNew == [x \in {} |-> Finished(1)]

\* HashMap::insert on the observations of a rung
RungInsert(rung, id, entry) ==
  [x \in (DOMAIN rung) \cup {id} |-> IF x = id THEN entry ELSE rung[x]]

RECURSIVE RungsGetMut(_, _)
\* Rungs::get_mut: the rungs grown so that rung i exists
RungsGetMut(rungs, i) ==
  IF Len(rungs) > i THEN rungs ELSE RungsGetMut(Append(rungs, RungNew), i)

\* the ids of the suspended entries of a rung
SuspendedIds(rung) == { x \in DOMAIN rung : is_suspended(rung[x]) }

(***************************************************************************)
(* AshaOptimizer.                                                          *)
(***************************************************************************)
\* AshaOptimizer::with_options
AshaNew(c) ==
  [max_budget |-> c.max_budget,
   options |-> [r |-> c.r, s |-> c.s, eta |-> c.eta,
                max_suspended |-> c.max_suspended],
   rungs |-> << >>,
   total_suspended |-> 0]

\* AshaOptimizer::get_rung_num
get_rung_num(a, c) ==
  LET n == c \div a.options.r
      rung == FloatLogFloor(n, a.options.eta)
  IN  IF n = 0 THEN 0
      ELSE IF rung <= a.options.s THEN 0 ELSE rung - a.options.s

\* a variant of `best_suspended` that takes the entry of maximal value
BestSuspended_Worst(rung) ==
  { x \in SuspendedIds(rung) :
      \A y \in SuspendedIds(rung) : rung[y].value <= rung[x].value }

\* the candidates of `best_suspended`: min_by_key over the hash map returns
\* one of the suspended entries of minimal value (which one depends on the
\* iteration order of the map)
BestSuspended(rung) ==
  { x \in SuspendedIds(rung) :
      \A y \in SuspendedIds(rung) : rung[x].value <= rung[y].value }

\* `superiors`: the finished entries strictly better than the given value
Superiors(rung, value) ==
  Cardinality({ x \in DOMAIN rung :
                  ~is_suspended(rung[x]) /\ rung[x].value < value })

\* a variant of the test of ask that compares with <= instead of <
RungPromotes_Lenient(a, rung) ==
  /\ SuspendedIds(rung) # {}
  /\ \A x \in BestSuspended(rung) :
       Superiors(rung, rung[x].value)
          <= Cardinality(DOMAIN rung) \div a.options.eta

\* the rung passes the test of ask: it has a suspended entry and the best
\* one has fewer than len / eta superiors
RungPromotes(a, rung) ==
  /\ SuspendedIds(rung) # {}
  /\ \A x \in BestSuspended(rung) :
       Superiors(rung, rung[x].value)
          < Cardinality(DOMAIN rung) \div a.options.eta

\* the rung numbers ask can promote from
PromotingRungs(a) ==
  { k \in 0..(Len(a.rungs) - 1) : RungPromotes(a, a.rungs[k + 1]) }

\* a variant of the scan of ask that goes from the lowest rung upwards
AskRung_Lowest(a) ==
  CHOOSE k \in PromotingRungs(a) : \A j \in PromotingRungs(a) : k <= j

\* the rung ask promotes from: the first one found scanning in reverse
AskRung(a) == SetMax(PromotingRungs(a))

\* a variant of the promoted amount that skips one rung
PromotedAmount_SkipsRung(a, rung_num) ==
  Min(a.max_budget,
      a.options.r * Pow(a.options.eta, (rung_num + 2) + a.options.s))

\* the budget amount given to an observation promoted out of rung_num
PromotedAmount(a, rung_num) ==
  Min(a.max_budget,
      a.options.r * Pow(a.options.eta, (rung_num + 1) + a.options.s))

\* a variant of the initial amount that leaves out the bracket number s
InitialAmount_IgnoresS(a) == Min(a.max_budget, a.options.r)

\* the budget amount given to a new observation
InitialAmount(a) ==
  Min(a.max_budget, a.options.r * Pow(a.options.eta, a.options.s))

\* the promotion branch of AshaOptimizer::ask, for the entry id of rung_num
AskPromote(a, rung_num, id) ==
  LET rung == a.rungs[rung_num + 1]
      entry == rung[id]
      param == [entry.param EXCEPT
                  !.budget = SetAmount(@, PromotedAmount(a, rung_num))]
  IN  [asha |-> [a EXCEPT !.rungs[rung_num + 1] =
                             RungInsert(rung, id, Finished(entry.value))],
       obs |-> [id |-> id, param |-> param, value |-> Unit],
       kind |-> "promote",
       rung |-> rung_num]

\* The parameter sampled for the n-th new observation.  The scheduler is
\* generic in the parameter and never inspects it, so every draw is
\* a distinct token.
Sample(n) == 100 + n

\* a variant of the inner ask that does not draw the identifier from the
\* generator
InnerAsk_ReusesId(next_id) ==
  [id |-> 0, param |-> Sample(next_id), value |-> Unit]

\* RandomOptimizer::ask: a sampled parameter under a generated identifier
InnerAsk(next_id) ==
  [id |-> next_id, param |-> Sample(next_id), value |-> Unit]

\* the last branch of AshaOptimizer::ask: a new observation from the inner
\* optimizer, wrapped with the initial budget
AskNew(a, next_id) ==
  LET new_obs == InnerAsk(next_id)
  IN  [asha |-> a,
       obs |-> [id |-> new_obs.id,
                param |-> BudgetedNew(BudgetNew(InitialAmount(a)),
                                      new_obs.param),
                value |-> new_obs.value],
       kind |-> "new",
       rung |-> 0]

\* AshaOptimizer::ask: the set of possible results
AshaAsk(a, next_id) ==
  IF PromotingRungs(a) # {}
    THEN { AskPromote(a, AskRung(a), id) :
             id \in BestSuspended(a.rungs[AskRung(a) + 1]) }
    ELSE { AskNew(a, next_id) }

\* a variant of `worst` that takes a suspended entry of minimal value
WorstSuspended_Best(rung) ==
  { x \in SuspendedIds(rung) :
      \A y \in SuspendedIds(rung) : rung[x].value <= rung[y].value }

\* the candidates of `worst` in abandone_one: max_by_key returns one of the
\* suspended entries of maximal value
WorstSuspended(rung) ==
  { x \in SuspendedIds(rung) :
      \A y \in SuspendedIds(rung) : rung[y].value <= rung[x].value }

\* the rungs (by index in the sequence) that hold a suspended entry
SuspendedRungs(rungs) ==
  { i \in 1..Len(rungs) : SuspendedIds(rungs[i]) # {} }

\* AshaOptimizer::abandone_one: the possible resulting rungs; the empty set
\* stands for reaching unreachable!()
AbandoneOne(rungs) ==
  IF SuspendedRungs(rungs) = {} THEN {}
  ELSE LET i == CHOOSE j \in SuspendedRungs(rungs) :
                  \A k \in SuspendedRungs(rungs) : j <= k
       IN  { [rungs EXCEPT ![i] =
                RungInsert(rungs[i], id, Finished(rungs[i][id].value))] :
               id \in WorstSuspended(rungs[i]) }

RECURSIVE AbandonLoop(_, _, _)
\* the `while max_suspended < total_suspended` loop of tell
AbandonLoop(rungs, total, max_suspended) ==
  IF ~(max_suspended < total)
    THEN { [rungs |-> rungs, total_suspended |-> total, panicked |-> FALSE] }
    ELSE IF AbandoneOne(rungs) = {}
      THEN { [rungs |-> rungs, total_suspended |-> total,
              panicked |-> TRUE] }
      ELSE UNION { AbandonLoop(rs, total - 1, max_suspended) :
                     rs \in AbandoneOne(rungs) }

\* a variant of the order of RungValue that does not reverse the rung
\* numbers
RungValueLess_Unreversed(x, y) ==
  \/ x.rung_num < y.rung_num
  \/ x.rung_num = y.rung_num /\ x.value < y.value

\* Ord for RungValue: (Reverse(rung_num), value) compared
\* lexicographically; TRUE when x is Less than y
RungValueLess(x, y) ==
  \/ x.rung_num > y.rung_num
  \/ x.rung_num = y.rung_num /\ x.value < y.value

\* the observation forwarded to the inner optimizer
InnerObs(obs, rung_num) ==
  [id |-> obs.id, param |-> obs.param.inner,
   value |-> [rung_num |-> rung_num, value |-> obs.value]]

\* a variant of the terminal branch of tell that counts the observation
\* as one more suspended entry
TellTerminal_Counts(a, rungs0, rung_num, obs) ==
  [rungs |-> rungs0, total |-> a.total_suspended + 1,
   forwarded |-> << InnerObs(obs, rung_num + 1) >>]

\* a variant of the terminal branch of tell that also records the
\* observation in the rung
TellTerminal_Inserts(a, rungs0, rung_num, obs) ==
  [rungs |-> [rungs0 EXCEPT ![rung_num + 1] =
                RungInsert(@, obs.id, Suspended(obs.param, obs.value))],
   total |-> a.total_suspended,
   forwarded |-> << InnerObs(obs, rung_num + 1) >>]

\* tell of a consumption that reaches max_budget: the observation is only
\* forwarded, one rung higher
TellTerminal(a, rungs0, rung_num, obs) ==
  [rungs |-> rungs0, total |-> a.total_suspended,
   forwarded |-> << InnerObs(obs, rung_num + 1) >>]

\* a variant of the branch of tell for a known id that counts the entry as
\* one more suspended entry
TellKnown_Counts(a, rungs0, rung_num, obs) ==
  [rungs |-> IF is_suspended(rungs0[rung_num + 1][obs.id])
               THEN [rungs0 EXCEPT ![rung_num + 1][obs.id].param = obs.param]
               ELSE rungs0,
   total |-> a.total_suspended + 1,
   forwarded |-> << >>]

\* a variant of the branch of tell for a known id that overwrites the
\* entry, of either kind, with a suspended entry of the told observation
TellKnown_Resuspends(a, rungs0, rung_num, obs) ==
  [rungs |-> [rungs0 EXCEPT ![rung_num + 1][obs.id] =
                Suspended(obs.param, obs.value)],
   total |-> a.total_suspended,
   forwarded |-> << >>]

\* tell of an id the rung already holds: a suspended entry takes the told
\* parameter (and its budget), nothing else changes
TellKnown(a, rungs0, rung_num, obs) ==
  [rungs |-> IF is_suspended(rungs0[rung_num + 1][obs.id])
               THEN [rungs0 EXCEPT ![rung_num + 1][obs.id].param = obs.param]
               ELSE rungs0,
   total |-> a.total_suspended,
   forwarded |-> << >>]

\* a variant of the branch of tell for a new id that suspends the
\* observation only in a rung without suspended entries, and records it as
\* Finished otherwise
TellFresh_KeepsFirst(a, rungs0, rung_num, obs) ==
  IF SuspendedIds(rungs0[rung_num + 1]) = {}
    THEN [rungs |-> [rungs0 EXCEPT ![rung_num + 1] =
                       RungInsert(@, obs.id, Suspended(obs.param, obs.value))],
          total |-> a.total_suspended + 1,
          forwarded |-> << InnerObs(obs, rung_num) >>]
    ELSE [rungs |-> [rungs0 EXCEPT ![rung_num + 1] =
                       RungInsert(@, obs.id, Finished(obs.value))],
          total |-> a.total_suspended,
          forwarded |-> << InnerObs(obs, rung_num) >>]

\* tell of an id the rung does not hold: a suspended entry is inserted and
\* the observation is forwarded with the number of the rung
TellFresh(a, rungs0, rung_num, obs) ==
  [rungs |-> [rungs0 EXCEPT ![rung_num + 1] =
                RungInsert(@, obs.id, Suspended(obs.param, obs.value))],
   total |-> a.total_suspended + 1,
   forwarded |-> << InnerObs(obs, rung_num) >>]

\* AshaOptimizer::tell: the set of possible results; forwarded is the
\* sequence of observations passed to the inner optimizer's tell
AshaTell(a, obs) ==
  LET c == obs.param.budget.consumption
      rung_num == get_rung_num(a, c)
      rungs0 == RungsGetMut(a.rungs, rung_num)
      branch ==
        IF c >= a.max_budget
          THEN TellTerminal(a, rungs0, rung_num, obs)
        ELSE IF obs.id \in DOMAIN rungs0[rung_num + 1]
          THEN TellKnown(a, rungs0, rung_num, obs)
          ELSE TellFresh(a, rungs0, rung_num, obs)
  IN  { [asha |-> [a EXCEPT !.rungs = l.rungs,
                            !.total_suspended = l.total_suspended],
         forwarded |-> branch.forwarded,
         rung |-> rung_num,
         result |-> IF l.panicked THEN "panic" ELSE "Ok",
         panicked |-> l.panicked] :
          l \in AbandonLoop(branch.rungs, branch.total,
                            a.options.max_suspended) }

(***************************************************************************)
(* HyperbandOptimizer.  brackets is the vector of brackets (bracket i is   *)
(* element i + 1), runnings maps the ids handed out and not told back yet  *)
(* to the index of their bracket.                                          *)
(***************************************************************************)
\* Bracket::new
BracketNew(a) == [asha |-> a, consumption |-> 0]

\* the AshaOptions of bracket i and the max_budget it is built with
BracketOptions(c, i) ==
  [max_budget |-> c.max_budget, r |-> c.r, s |-> i, eta |-> c.eta,
   max_suspended |-> c.max_susp]

\* HyperbandOptimizer::with_options
HyperbandNew(c) ==
  LET max_bracket == FloatLogFloor(c.max_budget, c.eta)
  IN  [brackets |-> [i \in 1..(max_bracket + 1) |->
                       BracketNew(AshaNew(BracketOptions(c, i - 1)))],
       runnings |-> [x \in {} |-> 0]]

\* a variant of min_by_key that takes the last bracket of minimal consumption
MinBracket_Last(h) ==
  CHOOSE i \in 0..(Len(h.brackets) - 1) :
    /\ \A j \in 0..(Len(h.brackets) - 1) :
         h.brackets[i + 1].consumption <= h.brackets[j + 1].consumption
    /\ \A j \in (i + 1)..(Len(h.brackets) - 1) :
         h.brackets[j + 1].consumption > h.brackets[i + 1].consumption

\* a variant of the choice of ask that always takes bracket 0
MinBracket_First(h) == 0

\* min_by_key over the enumerated brackets: the index of the first bracket
\* of minimal consumption
MinBracket(h) ==
  CHOOSE i \in 0..(Len(h.brackets) - 1) :
    /\ \A j \in 0..(Len(h.brackets) - 1) :
         h.brackets[i + 1].consumption <= h.brackets[j + 1].consumption
    /\ \A j \in 0..(i - 1) :
         h.brackets[j + 1].consumption > h.brackets[i + 1].consumption

\* a variant of the insertion that records bracket 0 for every id
RunningsInsert_Zero(runnings, id, i) ==
  [x \in (DOMAIN runnings) \cup {id} |-> IF x = id THEN 0 ELSE runnings[x]]

\* HashMap::insert on runnings
RunningsInsert(runnings, id, i) ==
  [x \in (DOMAIN runnings) \cup {id} |-> IF x = id THEN i ELSE runnings[x]]

\* a variant of the removal that leaves the entry of the id in the table
RunningsRemove_Keeps(runnings, id) == runnings

\* HashMap::remove on runnings
RunningsRemove(runnings, id) ==
  [x \in (DOMAIN runnings) \ {id} |-> runnings[x]]

\* a variant of the reservation of ask that reserves nothing
Reserve_Nothing(consumption, budget) == consumption

\* a variant of the reservation of ask that reserves the whole amount
Reserve_WholeAmount(consumption, budget) == consumption + budget.amount

\* bracket.consumption += obs.param.budget().remaining()
Reserve(consumption, budget) == consumption + Remaining(budget)

\* HyperbandOptimizer::ask: the set of possible results
HyperbandAsk(h, next_id) ==
  LET i == MinBracket(h)
      bracket == h.brackets[i + 1]
  IN  { [hyperband |->
           [brackets |-> [h.brackets EXCEPT ![i + 1] =
                            [asha |-> out.asha,
                             consumption |-> Reserve(bracket.consumption,
                                                     out.obs.param.budget)]],
            runnings |-> RunningsInsert(h.runnings, out.obs.id, i)],
         obs |-> out.obs,
         kind |-> out.kind,
         rung |-> out.rung,
         bracket |-> i] : out \in AshaAsk(bracket.asha, next_id) }

\* a variant of the lookup of tell that takes bracket 0 for an unknown id
Owner_Defaults(h, id) == IF id \in DOMAIN h.runnings THEN h.runnings[id] ELSE 0

\* self.runnings.remove(&observation.id): the index of the bracket, or -1
\* for None
Owner(h, id) == IF id \in DOMAIN h.runnings THEN h.runnings[id] ELSE -1

\* the runnings left by self.runnings.remove(&observation.id)
Forget(runnings, id) == RunningsRemove(runnings, id)

\* HyperbandOptimizer::tell: the set of possible results.  The unsigned
\* subtraction of the remaining amount overflows when it exceeds the
\* consumption of the bracket; the call is then recorded as panicked.
HyperbandTell(h, obs) ==
  LET i == Owner(h, obs.id)
  IN  IF i = -1
        THEN { [hyperband |-> h, result |-> "UnknownObservation",
                bracket |-> -1, rung |-> 0, panicked |-> FALSE] }
      ELSE LET bracket == h.brackets[i + 1]
               budget == obs.param.budget
               runnings == Forget(h.runnings, obs.id)
           IN  IF bracket.consumption < Remaining(budget)
                 THEN { [hyperband |-> [h EXCEPT !.runnings = runnings],
                         result |-> "panic", bracket |-> i, rung |-> 0,
                         panicked |-> TRUE] }
               ELSE { [hyperband |->
                         [brackets |-> [h.brackets EXCEPT ![i + 1] =
                            [asha |-> out.asha,
                             consumption |->
                               (bracket.consumption - Remaining(budget))
                                 + Excess(budget)]],
                          runnings |-> runnings],
                       result |-> out.result,
                       bracket |-> i,
                       rung |-> out.rung,
                       panicked |-> out.panicked] :
                        out \in AshaTell(bracket.asha, obs) }

(***************************************************************************)
(* The Budget of src/src/budget.rs: a consumption under a soft and a hard  *)
(* limit. Its fields are unsigned words; the model keeps WordBits bits of  *)
(* the 64 of the source, so that the overflow of an addition is reachable. *)
(* A call yields the set of its possible outcomes: the budget after the    *)
(* call, the result, and whether the process panicked.                     *)
(***************************************************************************)
\* u64::MAX + 1
Word == Pow(2, WordBits)

\* the values of a u64
Words == 0..(Word - 1)

\* Budget::new(limit)
Budget_new(limit) ==
  [consumption |-> 0, soft_limit |-> limit, hard_limit |-> limit]

\* Ok(()) with the budget b
Done(b) == [budget |-> b, result |-> "Ok", panicked |-> FALSE]

\* a failed track_assert!: the error is returned before any assignment
Failed(b) == [budget |-> b, result |-> "InvalidInput", panicked |-> FALSE]

\* the panic of an arithmetic overflow in a build with overflow checks
Overflowed(b) == [budget |-> b, result |-> "panic", panicked |-> TRUE]

\* Budget::consume(amount). The sum consumption + amount is a u64 addition:
\* when it exceeds u64::MAX a build with overflow checks panics and a build
\* without them wraps, in the assertion and in the assignment alike.
consume(b, amount) ==
  LET sum     == b.consumption + amount
      wrapped == sum % Word
      checked == IF wrapped <= b.hard_limit
                   THEN Done([b EXCEPT !.consumption = wrapped])
                   ELSE Failed(b)
  IN  IF sum >= Word THEN {Overflowed(b), checked} ELSE {checked}

\* Budget::set_consumption(amount)
set_consumption(b, amount) ==
  IF b.consumption <= amount /\ amount <= b.hard_limit
    THEN {Done([b EXCEPT !.consumption = amount])}
    ELSE {Failed(b)}

\* Budget::set_soft_limit(limit)
set_soft_limit(b, limit) ==
  IF limit <= b.hard_limit
    THEN {Done([b EXCEPT !.soft_limit = limit])}
    ELSE {Failed(b)}

\* a variant of set_hard_limit that compares the limit with the soft limit
\* only
set_hard_limit_SoftOnly(b, limit) ==
  IF b.soft_limit <= limit
    THEN {Done([b EXCEPT !.hard_limit = limit])}
    ELSE {Failed(b)}

\* Budget::set_hard_limit(limit)
set_hard_limit(b, limit) ==
  IF b.soft_limit <= limit /\ b.consumption <= limit
    THEN {Done([b EXCEPT !.hard_limit = limit])}
    ELSE {Failed(b)}

\* Budget::hard_remaining: an unsigned subtraction
hard_remaining(b) == b.hard_limit - b.consumption

\* Budget::soft_remaining
soft_remaining(b) ==
  IF b.consumption <= b.soft_limit
    THEN [ok |-> TRUE, amount |-> b.soft_limit - b.consumption]
    ELSE [ok |-> FALSE, amount |-> b.consumption - b.soft_limit]

(***************************************************************************)
(* The Nelder-Mead optimizer (src/src/optimizers/nelder_mead.rs) over a    *)
(* space of F64 parameters that share one range. Internal values are       *)
(* integers that count halves of f64::EPSILON. The points that a phase     *)
(* computes from the simplex are not computed here (its steps are 10^12    *)
(* times EPSILON and more): a computed point is any vector of Window, and  *)
(* the simplex keeps the value of each of its pairs only.                  *)
(***************************************************************************)
\* std::f64::EPSILON, in halves of EPSILON
Epsilon == 2

\* Range::contains: low is inclusive, high is exclusive
contains(r, x) == r.low <= x /\ x < r.high

\* F64::encode and F64::decode: the value itself, if the range contains it
InSpace(r, xs) == \A i \in DOMAIN xs : contains(r, xs[i])

RECURSIVE AdjustLoop(_, _, _)
\* the loop of adjust that steps a value off the upper end of the range
AdjustLoop(v, high, i) ==
  IF v # high THEN v ELSE AdjustLoop(v - Epsilon * i, high, i + 1)

\* the clamping of one coordinate in adjust
Clamp(r, v) ==
  LET raised  == IF r.low >= v THEN r.low ELSE v
      lowered == Min(r.high - Epsilon, raised)
  IN  AdjustLoop(lowered, r.high, 2)

\* NelderMeadOptimizer::adjust: the clamped coordinates, decoded
adjust(nm, x) ==
  LET xs == [i \in DOMAIN x |-> Clamp(nm.range, x[i])]
  IN  [ok |-> InSpace(nm.range, xs), param |-> xs]

\* the internal values a computed coordinate is drawn from
Window(r) == (r.low - 1)..(r.high + 1)

\* the points a phase may compute
Points(nm) == [1..nm.dim -> Window(nm.range)]

\* State::Initialize, State::Reflect, ..., State::Shrink { index }, with
\* the value of the observation a phase carries
Phase(name, prev, index) == [phase |-> name, prev |-> prev, index |-> index]

\* the absent ObsId of evaluating (None)
NoId == -1

\* NelderMeadOptimizer::new(param_space, x0) for dim parameters of one
\* range; zip keeps as many entries of x0 as there are parameters
NelderMeadNew(c) ==
  LET x0 == [i \in 1..Min(c.dim, Len(c.x0)) |-> c.x0[i]]
      nm == [dim |-> c.dim, range |-> [low |-> c.low, high |-> c.high],
             simplex |-> << >>, initial |-> <<x0>>, evaluating |-> NoId,
             state |-> Phase("Initialize", 0, 0)]
  IN  IF Len(c.x0) >= 2 /\ InSpace(nm.range, x0)
        THEN [result |-> "Ok", nelder_mead |-> nm]
        ELSE [result |-> "InvalidInput", nelder_mead |-> nm]

RECURSIVE SortByValue(_)
\* sort_by on the values (a stable insertion of the last element)
SortByValue(vs) ==
  IF Len(vs) <= 1 THEN vs
  ELSE LET init == SortByValue(SubSeq(vs, 1, Len(vs) - 1))
           v    == vs[Len(vs)]
           k    == Cardinality({i \in DOMAIN init : init[i] <= v})
       IN  SubSeq(init, 1, k) \o <<v>> \o SubSeq(init, k + 1, Len(init))

lowest(nm) == nm.simplex[1]

second_highest(nm) == nm.simplex[Len(nm.simplex) - 1]

highest(nm) == nm.simplex[Len(nm.simplex)]

\* NelderMeadOptimizer::accept: push, sort, pop, and back to Reflect
accept(nm, value) ==
  LET sorted == SortByValue(Append(nm.simplex, value))
  IN  [nm EXCEPT !.simplex = SubSeq(sorted, 1, Len(sorted) - 1),
                 !.state = Phase("Reflect", 0, 0)]

\* NelderMeadOptimizer::shrink
shrink(nm) == [nm EXCEPT !.state = Phase("Shrink", 0, 1)]

\* NelderMeadOptimizer::initial_tell
initial_tell(nm, value) ==
  LET pushed == Append(nm.simplex, value)
  IN  IF Len(pushed) = nm.dim + 1
        THEN [nm EXCEPT !.simplex = SortByValue(pushed),
                        !.state = Phase("Reflect", 0, 0)]
        ELSE [nm EXCEPT !.simplex = pushed,
                        !.state = Phase("Initialize", 0, 0)]

\* NelderMeadOptimizer::reflect_tell
reflect_tell(nm, value) ==
  IF value < lowest(nm)
    THEN [nm EXCEPT !.state = Phase("Expand", value, 0)]
  ELSE IF value < second_highest(nm)
    THEN accept(nm, value)
  ELSE IF value < highest(nm)
    THEN [nm EXCEPT !.state = Phase("ContractOutside", value, 0)]
  ELSE [nm EXCEPT !.state = Phase("ContractInside", value, 0)]

\* NelderMeadOptimizer::expand_tell
expand_tell(nm, prev, curr) ==
  IF prev < curr THEN accept(nm, prev) ELSE accept(nm, curr)

\* NelderMeadOptimizer::contract_outside_tell
contract_outside_tell(nm, prev, curr) ==
  IF curr <= prev THEN accept(nm, curr) ELSE shrink(nm)

\* NelderMeadOptimizer::contract_inside_tell
contract_inside_tell(nm, prev, curr) ==
  IF curr < highest(nm) THEN accept(nm, curr) ELSE shrink(nm)

\* NelderMeadOptimizer::shrink_tell (index counts from 0)
shrink_tell(nm, value, index) ==
  LET replaced == [nm EXCEPT !.simplex[index + 1] = value]
  IN  IF index < Len(nm.simplex) - 1
        THEN [replaced EXCEPT !.state = Phase("Shrink", 0, index + 1)]
        ELSE [replaced EXCEPT !.state = Phase("Reflect", 0, 0)]

\* NelderMeadOptimizer::initial_ask: initial.take(), or a step from
\* simplex[0] along the coordinate simplex.len() - 1
initial_ask(nm) ==
  IF nm.initial # << >> THEN {nm.initial[1]} ELSE Points(nm)

\* initial_ask evaluates simplex.len() - 1 and simplex[0] on an empty
\* simplex: the subtraction or the indexing panics
InitialAskPanics(nm) ==
  /\ nm.state.phase = "Initialize"
  /\ nm.initial = << >>
  /\ Len(nm.simplex) = 0

\* NelderMeadOptimizer::ask with the identifier id the generator hands out
NelderMeadAsk(nm, id) ==
  IF nm.evaluating # NoId
    THEN { [nelder_mead |-> nm, result |-> "Other", id |-> NoId,
            param |-> << >>, panicked |-> FALSE] }
  ELSE IF InitialAskPanics(nm)
    THEN { [nelder_mead |-> nm, result |-> "panic", id |-> NoId,
            param |-> << >>, panicked |-> TRUE] }
  ELSE LET xs    == IF nm.state.phase = "Initialize"
                      THEN initial_ask(nm) ELSE Points(nm)
           taken == IF nm.state.phase = "Initialize"
                      THEN [nm EXCEPT !.initial = << >>] ELSE nm
       IN  { IF ~adjust(nm, x).ok
               THEN [nelder_mead |-> taken, result |-> "InvalidInput",
                     id |-> NoId, param |-> << >>, panicked |-> FALSE]
               ELSE [nelder_mead |-> [taken EXCEPT !.evaluating = id],
                     result |-> "Ok", id |-> id,
                     param |-> adjust(nm, x).param, panicked |-> FALSE] :
             x \in xs }

\* the dispatch of tell on the phase, after mem::replace
Dispatch(nm, value) ==
  LET st == nm.state
  IN  CASE st.phase = "Initialize" -> initial_tell(nm, value)
        [] st.phase = "Reflect" -> reflect_tell(nm, value)
        [] st.phase = "Expand" -> expand_tell(nm, st.prev, value)
        [] st.phase = "ContractOutside" ->
             contract_outside_tell(nm, st.prev, value)
        [] st.phase = "ContractInside" ->
             contract_inside_tell(nm, st.prev, value)
        [] st.phase = "Shrink" -> shrink_tell(nm, value, st.index)

\* NelderMeadOptimizer::tell: evaluating is cleared before the parameter
\* of the observation is encoded
NelderMeadTell(nm, obs) ==
  IF nm.evaluating # obs.id
    THEN [nelder_mead |-> nm, result |-> "UnknownObservation"]
    ELSE LET cleared == [nm EXCEPT !.evaluating = NoId]
         IN  IF ~InSpace(nm.range, obs.param)
               THEN [nelder_mead |-> cleared, result |-> "InvalidInput"]
               ELSE [nelder_mead |-> Dispatch(cleared, obs.value),
                     result |-> "Ok"]

(***************************************************************************)
(* The OSHA optimizer (src/src/optimizers/osha.rs): successive halving     *)
(* over optimizers.  The meta optimizer hands out inner optimizers, the    *)
(* active one is evaluated, the others are stored with their rung.  The    *)
(* inner optimizers are not modelled: of an OptimizerState the model       *)
(* keeps every field but inner.  An Option is a sequence of length 0 or 1. *)
(***************************************************************************)
\* OshaOptimizer::with_min_evals(meta_optimizer, min_evals)
OshaNew(min_evals) ==
  [active |-> << >>, optimizers |-> << >>, min_evals |-> min_evals,
   warmup_evals |-> 10]

\* OptimizerState::new(id, inner, min_evals)
OptimizerStateNew(id, min_evals) ==
  [id |-> id, bests |-> << >>, evals |-> 0, rung_evals |-> min_evals,
   rung |-> 0, stagnated |-> FALSE]

\* OptimizerState::best is Some: bests.get(self.rung)
HasBest(o) == o.rung < Len(o.bests)

\* OptimizerState::set_best(value)
set_best(o, value) ==
  IF ~HasBest(o) THEN [o EXCEPT !.bests = Append(@, value)]
                 ELSE [o EXCEPT !.bests[o.rung + 1] = value]

\* a.key(rung) < b.key(rung) for key = Reverse(bests.get(rung).map(Reverse)):
\* a smaller best value comes first, an optimizer with no best value of
\* the rung comes last
KeyLess(a, b, rung) ==
  /\ rung < Len(a.bests)
  /\ rung < Len(b.bests) => a.bests[rung + 1] < b.bests[rung + 1]

RECURSIVE SortByKey(_, _)
\* self.optimizers.sort_by(|a, b| a.key(rung).cmp(&b.key(rung))): a stable
\* sort, equal keys keep their order
SortByKey(os, rung) ==
  IF Len(os) <= 1 THEN os
  ELSE LET init == SortByKey(SubSeq(os, 1, Len(os) - 1), rung)
           o    == os[Len(os)]
           k    == Cardinality({j \in DOMAIN init :
                                  ~KeyLess(o, init[j], rung)})
       IN  SubSeq(init, 1, k) \o <<o>> \o SubSeq(init, k + 1, Len(init))

\* Vec::swap_remove(i): the last element takes the place of the removed one
swap_remove(os, i) ==
  LET front == SubSeq(os, 1, Len(os) - 1)
  IN  IF i = Len(os) - 1 THEN front
      ELSE [front EXCEPT ![i + 1] = os[Len(os)]]

RECURSIVE ActivateFrom(_, _)
\* the body of `for rung in 0..` of OshaOptimizer::activate, from rung on:
\* the optimizer after the call, the returned flag, and whether the
\* position lookup hit unreachable!()
ActivateFrom(o, rung) ==
  LET sorted == SortByKey(o.optimizers, rung)
      n      == Cardinality({j \in DOMAIN sorted : sorted[j].rung >= rung})
      at     == {j \in DOMAIN sorted : sorted[j].rung = rung}
      so     == [o EXCEPT !.optimizers = sorted]
  IN  IF n = 0 THEN [osha |-> so, ret |-> TRUE, panicked |-> FALSE]
      ELSE IF at = {} THEN [osha |-> so, ret |-> FALSE, panicked |-> TRUE]
      ELSE LET i == (CHOOSE j \in at : \A k \in at : j <= k) - 1
           IN  IF i < n \div 2
                 THEN LET optimizer == [sorted[i + 1] EXCEPT
                                          !.rung_evals = @ * 2,
                                          !.rung = @ + 1]
                          rest == swap_remove(sorted, i)
                      IN  IF optimizer.stagnated
                            THEN [osha |-> [o EXCEPT !.optimizers =
                                              Append(rest, optimizer)],
                                  ret |-> FALSE, panicked |-> FALSE]
                          ELSE [osha |->
                                  [o EXCEPT
                                     !.optimizers = rest,
                                     !.active =
                                       <<[optimizer EXCEPT !.stagnated =
                                            optimizer.evals
                                              >= o.warmup_evals]>>],
                                ret |-> TRUE, panicked |-> FALSE]
               ELSE ActivateFrom(so, rung + 1)

\* OshaOptimizer::activate; assert!(self.active.is_none()) panics otherwise
activate(o) ==
  IF o.active # << >> THEN [osha |-> o, ret |-> FALSE, panicked |-> TRUE]
  ELSE ActivateFrom(o, 0)

RECURSIVE ActivateLoop(_, _)
\* `while !self.activate() {}` with at most calls + 1 calls of activate:
\* the result is "Ok" when a call returned true, "panic" when a call
\* panicked and "diverges" when every call returned false
ActivateLoop(o, calls) ==
  LET r == activate(o)
  IN  IF r.panicked
        THEN [osha |-> r.osha, result |-> "panic", panicked |-> TRUE]
      ELSE IF r.ret
        THEN [osha |-> r.osha, result |-> "Ok", panicked |-> FALSE]
      ELSE IF calls = 0
        THEN [osha |-> r.osha, result |-> "diverges", panicked |-> FALSE]
      ELSE ActivateLoop(r.osha, calls - 1)

\* OshaOptimizer::ask: the meta optimizer is asked when no optimizer is
\* active and returns Some(optimizer) (some) or None; then the active
\* optimizer is asked, which draws the identifier of the observation
OshaAsk(o, id, some) ==
  IF o.active = << >>
    THEN IF some
           THEN [osha |-> [o EXCEPT !.active =
                             <<OptimizerStateNew(id, o.min_evals)>>],
                 next_id |-> id + 2, result |-> "Ok"]
         ELSE [osha |-> o, next_id |-> id + 1, result |-> "Other"]
  ELSE [osha |-> o, next_id |-> id + 1, result |-> "Ok"]

\* OshaOptimizer::tell of an observation with the given value; inner_ok
\* and meta_ok say whether the tell of the inner and of the meta optimizer
\* succeed
OshaTell(o, value, inner_ok, meta_ok) ==
  IF o.active = << >>
    THEN [osha |-> o, result |-> "Other", panicked |-> FALSE]
  ELSE IF ~inner_ok
    THEN [osha |-> o, result |-> "Err", panicked |-> FALSE]
  ELSE LET a        == o.active[1]
           improved == ~HasBest(a) \/ value < a.bests[a.rung + 1]
           b        == IF improved
                         THEN [set_best(a, value) EXCEPT !.stagnated = FALSE]
                         ELSE a
           c        == [b EXCEPT !.evals = @ + 1]
       IN  IF improved /\ ~meta_ok
             THEN [osha |-> [o EXCEPT !.active = <<b>>], result |-> "Err",
                   panicked |-> FALSE]
           ELSE IF c.evals >= c.rung_evals
             THEN ActivateLoop([o EXCEPT !.active = << >>,
                                         !.optimizers = Append(@, c)],
                               MaxActivations)
           ELSE [osha |-> [o EXCEPT !.active = <<c>>], result |-> "Ok",
                 panicked |-> FALSE]

(***************************************************************************)
(* The state: the optimizer (an ASHA optimizer, or a Hyperband optimizer   *)
(* in the runs of SpecHyperband), the serial id generator and the caller.  *)
(***************************************************************************)
VARIABLES
  cfg,        \* the construction of the optimizer
  asha,       \* the AshaOptimizer
  next_id,    \* SerialIdGenerator::next_id
  asked,      \* the caller: id -> the parameter (with budget) it holds
  last,       \* the last call: its kind and the observation it was about
  promoted,   \* the <<id, rung number>> pairs promoted so far
  streak,     \* the rung numbers promoted out of since the last tell
  panicked,   \* the process has hit unreachable!()
  hyperband,  \* the HyperbandOptimizer
  spent,      \* per bracket: the consumption its tells have reported
  issuer,     \* id -> the bracket that returned it as a new observation
  budget,     \* a Budget of src/budget.rs on its own
  nelder_mead, \* the NelderMeadOptimizer
  osha        \* the OshaOptimizer

vars == <<cfg, asha, next_id, asked, last, promoted, streak, panicked,
          hyperband, spent, issuer, budget, nelder_mead, osha>>

\* the Hyperband part of the state in the runs on one ASHA optimizer
NoHyperband ==
  /\ hyperband = [brackets |-> << >>, runnings |-> [x \in {} |-> 0]]
  /\ spent = << >>
  /\ issuer = [x \in {} |-> 0]

\* the Budget in the runs without one
NoBudget == budget = Budget_new(0)

\* the Nelder-Mead optimizer in the runs without one
NoNelderMead == nelder_mead = [evaluating |-> NoId]

\* the OSHA optimizer in the runs without one
NoOsha == osha = OshaNew(0)

Init ==
  /\ cfg \in Configs
  /\ asha = AshaNew(cfg)
  /\ next_id = 0
  /\ asked = [x \in {} |-> 0]
  /\ last = [op |-> "init"]
  /\ promoted = {}
  /\ streak = << >>
  /\ panicked = FALSE
  /\ NoHyperband
  /\ NoBudget
  /\ NoNelderMead
  /\ NoOsha

\* SerialIdGenerator::generate
Generate(n) == [id |-> n, next_id |-> n + 1]

\* the possible results of a call of ask in the current state
AskOutcomes == AshaAsk(asha, Generate(next_id).id)

\* a variant of the call of ask that draws an identifier from the generator
\* on a promotion too
Ask_AlwaysGenerates ==
  /\ ~panicked
  /\ \E out \in AskOutcomes :
       /\ out.kind = "new" => next_id < MaxIds
       /\ asha' = out.asha
       /\ next_id' = Generate(next_id).next_id
       /\ asked' = [x \in (DOMAIN asked) \cup {out.obs.id} |->
                      IF x = out.obs.id THEN out.obs.param ELSE asked[x]]
       /\ last' = [op |-> "ask", kind |-> out.kind, id |-> out.obs.id,
                   rung |-> out.rung]
       /\ promoted' = IF out.kind = "promote"
                        THEN promoted \cup {<<out.obs.id, out.rung>>}
                        ELSE promoted
       /\ streak' = IF out.kind = "promote"
                      THEN Append(streak, out.rung) ELSE streak
  /\ UNCHANGED <<budget, nelder_mead, osha>>
  /\ UNCHANGED <<cfg, panicked, hyperband, spent, issuer>>

\* a call of AshaOptimizer::ask
Ask ==
  /\ ~panicked
  /\ \E out \in AskOutcomes :
       /\ out.kind = "new" => next_id < MaxIds
       /\ asha' = out.asha
       /\ next_id' = IF out.kind = "new" THEN Generate(next_id).next_id
                                         ELSE next_id
       /\ asked' = [x \in (DOMAIN asked) \cup {out.obs.id} |->
                      IF x = out.obs.id THEN out.obs.param ELSE asked[x]]
       /\ last' = [op |-> "ask", kind |-> out.kind, id |-> out.obs.id,
                   rung |-> out.rung]
       /\ promoted' = IF out.kind = "promote"
                        THEN promoted \cup {<<out.obs.id, out.rung>>}
                        ELSE promoted
       /\ streak' = IF out.kind = "promote"
                      THEN Append(streak, out.rung) ELSE streak
  /\ UNCHANGED <<budget, nelder_mead, osha>>
  /\ UNCHANGED <<cfg, panicked, hyperband, spent, issuer>>

\* The observation the caller tells for id: the one it holds, evaluated to
\* the value v after raising the consumption of its budget to c.
TellObs(id, c, v) ==
  [id |-> id,
   param |-> [asked[id] EXCEPT !.budget.consumption = c],
   value |-> v]

\* The observations the caller may tell: the consumption of a budget only
\* grows (Budget::set_consumption), the value is arbitrary.
TellInputs ==
  UNION { { TellObs(id, c, v) :
              c \in { d \in cfg.cons : asked[id].budget.consumption <= d },
              v \in Values } : id \in DOMAIN asked }

\* the observations of a caller that consumes exactly the granted amount
GrantedInputs ==
  { TellObs(id, asked[id].budget.amount, v) :
      id \in DOMAIN asked, v \in Values }

\* a call of AshaOptimizer::tell with the observation obs
TellOf(obs) ==
  /\ ~panicked
  /\ \E out \in AshaTell(asha, obs) :
       /\ asha' = out.asha
       /\ panicked' = out.panicked
       /\ last' = [op |-> "tell", id |-> obs.id, rung |-> out.rung]
  /\ asked' = [asked EXCEPT ![obs.id] = obs.param]
  /\ streak' = << >>
  /\ UNCHANGED <<budget, nelder_mead, osha>>
  /\ UNCHANGED <<cfg, next_id, promoted, hyperband, spent, issuer>>

\* the caller reports any consumption
Tell == \E obs \in TellInputs : TellOf(obs)

\* the caller reports a consumption equal to the granted amount
TellGranted == \E obs \in GrantedInputs : TellOf(obs)

Next == Ask \/ Tell

Spec == Init /\ [][Next]_vars

NextGranted == Ask \/ TellGranted

SpecGranted == Init /\ [][NextGranted]_vars

\* the optimizer is constructed with options no caller has validated
InitUnchecked ==
  /\ cfg \in UncheckedConfigs
  /\ asha = AshaNew(cfg)
  /\ next_id = 0
  /\ asked = [x \in {} |-> 0]
  /\ last = [op |-> "init"]
  /\ promoted = {}
  /\ streak = << >>
  /\ panicked = FALSE
  /\ NoHyperband
  /\ NoBudget
  /\ NoNelderMead
  /\ NoOsha

SpecUnchecked == InitUnchecked /\ [][Next]_vars

\* the optimizer is constructed with a max_budget inside a rung
InitOffBoundary ==
  /\ cfg \in OffBoundaryConfigs
  /\ asha = AshaNew(cfg)
  /\ next_id = 0
  /\ asked = [x \in {} |-> 0]
  /\ last = [op |-> "init"]
  /\ promoted = {}
  /\ streak = << >>
  /\ panicked = FALSE
  /\ NoHyperband
  /\ NoBudget
  /\ NoNelderMead
  /\ NoOsha

SpecOffBoundary == InitOffBoundary /\ [][Next]_vars

\* the optimizer is constructed with a small max_suspended
InitSuspended ==
  /\ cfg \in SuspendedConfigs
  /\ asha = AshaNew(cfg)
  /\ next_id = 0
  /\ asked = [x \in {} |-> 0]
  /\ last = [op |-> "init"]
  /\ promoted = {}
  /\ streak = << >>
  /\ panicked = FALSE
  /\ NoHyperband
  /\ NoBudget
  /\ NoNelderMead
  /\ NoOsha

SpecSuspended == InitSuspended /\ [][Next]_vars

\* the optimizer is constructed with eta = 3
InitPowerBoundary ==
  /\ cfg = CfgPowerBoundary
  /\ asha = AshaNew(cfg)
  /\ next_id = 0
  /\ asked = [x \in {} |-> 0]
  /\ last = [op |-> "init"]
  /\ promoted = {}
  /\ streak = << >>
  /\ panicked = FALSE
  /\ NoHyperband
  /\ NoBudget
  /\ NoNelderMead
  /\ NoOsha

\* a call of AshaOptimizer::ask in a run with one identifier more, as a
\* rung of eta = 3 promotes one of three entries
AskBoundary ==
  /\ ~panicked
  /\ \E out \in AskOutcomes :
       /\ out.kind = "new" => next_id < MaxIds + 1
       /\ asha' = out.asha
       /\ next_id' = IF out.kind = "new" THEN Generate(next_id).next_id
                                         ELSE next_id
       /\ asked' = [x \in (DOMAIN asked) \cup {out.obs.id} |->
                      IF x = out.obs.id THEN out.obs.param ELSE asked[x]]
       /\ last' = [op |-> "ask", kind |-> out.kind, id |-> out.obs.id,
                   rung |-> out.rung]
       /\ promoted' = IF out.kind = "promote"
                        THEN promoted \cup {<<out.obs.id, out.rung>>}
                        ELSE promoted
       /\ streak' = IF out.kind = "promote"
                      THEN Append(streak, out.rung) ELSE streak
  /\ UNCHANGED <<budget, nelder_mead, osha>>
  /\ UNCHANGED <<cfg, panicked, hyperband, spent, issuer>>

NextPowerBoundary == AskBoundary \/ Tell

SpecPowerBoundary == InitPowerBoundary /\ [][NextPowerBoundary]_vars

(***************************************************************************)
(* The rung numbers of all consumptions up to MaxConsumption, and the      *)
(* Hyperband constructions for all max_budgets up to MaxConsumption.       *)
(***************************************************************************)
\* the options the rung numbers are computed for: the defaults of the
\* test get_rung_num_works, thirds, and a bracket with s = 1
RungNumConfigs ==
  { [max_budget |-> 64, r |-> 1, s |-> 0, eta |-> 4, max_suspended |-> 4,
     cons |-> {}],
    [max_budget |-> 243, r |-> 1, s |-> 0, eta |-> 3, max_suspended |-> 4,
     cons |-> {}],
    [max_budget |-> 128, r |-> 2, s |-> 1, eta |-> 2, max_suspended |-> 4,
     cons |-> {}] }

InitRungNum ==
  /\ cfg \in RungNumConfigs
  /\ asha = AshaNew(cfg)
  /\ next_id = 0
  /\ asked = [x \in {} |-> 0]
  /\ last = [op |-> "init"]
  /\ promoted = {}
  /\ streak = << >>
  /\ panicked = FALSE
  /\ NoHyperband
  /\ NoBudget
  /\ NoNelderMead
  /\ NoOsha

\* a call of get_rung_num, as tell makes it for the consumption c
GetRungNum ==
  /\ \E c \in 0..MaxConsumption :
       last' = [op |-> "get_rung_num", consumption |-> c,
                rung |-> get_rung_num(asha, c)]
  /\ UNCHANGED <<budget, nelder_mead, osha>>
  /\ UNCHANGED <<cfg, asha, next_id, asked, promoted, streak, panicked,
                 hyperband, spent, issuer>>

SpecRungNum == InitRungNum /\ [][GetRungNum]_vars

\* the Hyperband options the optimizer is constructed with
BracketConfigs ==
  { [max_budget |-> b, r |-> 1, eta |-> e, max_susp |-> 4, cons |-> {}] :
      b \in 1..MaxConsumption, e \in {2, 3} }

\* before the construction
InitBrackets ==
  /\ cfg \in BracketConfigs
  /\ asha = AshaNew(BracketOptions(cfg, 0))
  /\ next_id = 0
  /\ asked = [x \in {} |-> 0]
  /\ last = [op |-> "init"]
  /\ promoted = {}
  /\ streak = << >>
  /\ panicked = FALSE
  /\ NoHyperband
  /\ NoBudget
  /\ NoNelderMead
  /\ NoOsha

\* a call of HyperbandOptimizer::with_options
Construct ==
  /\ last.op = "init"
  /\ hyperband' = HyperbandNew(cfg)
  /\ last' = [op |-> "with_options"]
  /\ UNCHANGED <<budget, nelder_mead, osha>>
  /\ UNCHANGED <<cfg, asha, next_id, asked, promoted, streak, panicked,
                 spent, issuer>>

SpecBrackets == InitBrackets /\ [][Construct]_vars

(***************************************************************************)
(* Runs on a Hyperband optimizer.                                          *)
(***************************************************************************)
InitHyperband ==
  /\ cfg \in HyperbandConfigs
  /\ hyperband = HyperbandNew(cfg)
  /\ spent = [i \in DOMAIN HyperbandNew(cfg).brackets |-> 0]
  /\ issuer = [x \in {} |-> 0]
  /\ asha = AshaNew(BracketOptions(cfg, 0))
  /\ next_id = 0
  /\ asked = [x \in {} |-> 0]
  /\ last = [op |-> "init"]
  /\ promoted = {}
  /\ streak = << >>
  /\ panicked = FALSE
  /\ NoBudget
  /\ NoNelderMead
  /\ NoOsha

\* the possible results of a call of HyperbandOptimizer::ask
HbAskOutcomes == HyperbandAsk(hyperband, Generate(next_id).id)

\* a call of HyperbandOptimizer::ask
HbAsk ==
  /\ ~panicked
  /\ \E out \in HbAskOutcomes :
       /\ out.kind = "new" => next_id < MaxHbIds
       /\ hyperband' = out.hyperband
       /\ next_id' = IF out.kind = "new" THEN Generate(next_id).next_id
                                         ELSE next_id
       /\ asked' = [x \in (DOMAIN asked) \cup {out.obs.id} |->
                      IF x = out.obs.id THEN out.obs.param ELSE asked[x]]
       /\ issuer' = IF out.kind = "new"
                      THEN [x \in (DOMAIN issuer) \cup {out.obs.id} |->
                              IF x = out.obs.id THEN out.bracket
                                                ELSE issuer[x]]
                      ELSE issuer
       /\ last' = [op |-> "ask", kind |-> out.kind, id |-> out.obs.id,
                   rung |-> out.rung, bracket |-> out.bracket]
  /\ UNCHANGED <<budget, nelder_mead, osha>>
  /\ UNCHANGED <<cfg, asha, promoted, streak, panicked, spent>>

\* The observations the caller may tell to the Hyperband optimizer: the
\* ones of TellInputs, and an observation under the identifier the
\* generator has not handed out yet.
HbTellInputs ==
  TellInputs \cup
    { [id |-> Generate(next_id).id,
       param |-> BudgetedNew([amount |-> c, consumption |-> c],
                             Sample(next_id)),
       value |-> v] : c \in cfg.cons, v \in Values }

\* a call of HyperbandOptimizer::tell with the observation obs
HbTellOf(obs) ==
  /\ ~panicked
  /\ \E out \in HyperbandTell(hyperband, obs) :
       /\ hyperband' = out.hyperband
       /\ panicked' = out.panicked
       /\ last' = [op |-> "tell", id |-> obs.id, rung |-> out.rung,
                   bracket |-> out.bracket, result |-> out.result]
       /\ IF out.bracket = -1
            THEN UNCHANGED <<asked, spent>>
            ELSE /\ asked' = [asked EXCEPT ![obs.id] = obs.param]
                 /\ spent' = [spent EXCEPT ![out.bracket + 1] =
                                @ + (obs.param.budget.consumption
                                       - asked[obs.id].budget.consumption)]
  /\ UNCHANGED <<budget, nelder_mead, osha>>
  /\ UNCHANGED <<cfg, asha, next_id, promoted, streak, issuer>>

HbTell == \E obs \in HbTellInputs : HbTellOf(obs)

NextHyperband == HbAsk \/ HbTell

SpecHyperband == InitHyperband /\ [][NextHyperband]_vars

(***************************************************************************)
(* Runs on a Budget of src/src/budget.rs.                                  *)
(***************************************************************************)
\* the limits the budget is made with
BudgetConfigs == { [limit |-> l] : l \in Words }

InitBudget ==
  /\ cfg \in BudgetConfigs
  /\ budget = Budget_new(cfg.limit)
  /\ asha = AshaNew(CfgScenario)
  /\ next_id = 0
  /\ asked = [x \in {} |-> 0]
  /\ last = [op |-> "init"]
  /\ promoted = {}
  /\ streak = << >>
  /\ panicked = FALSE
  /\ NoHyperband
  /\ NoNelderMead
  /\ NoOsha

\* a call of a mutator of the budget with the outcomes outs
BudgetCall(op, outs) ==
  /\ ~panicked
  /\ \E out \in outs :
       /\ budget' = out.budget
       /\ panicked' = out.panicked
       /\ last' = [op |-> op, result |-> out.result]
  /\ UNCHANGED <<cfg, asha, next_id, asked, promoted, streak, hyperband,
                 spent, issuer, nelder_mead, osha>>

Consume == \E a \in Words : BudgetCall("consume", consume(budget, a))

SetConsumption ==
  \E a \in Words : BudgetCall("set_consumption", set_consumption(budget, a))

SetSoftLimit ==
  \E l \in Words : BudgetCall("set_soft_limit", set_soft_limit(budget, l))

SetHardLimit ==
  \E l \in Words : BudgetCall("set_hard_limit", set_hard_limit(budget, l))

NextBudget == Consume \/ SetConsumption \/ SetSoftLimit \/ SetHardLimit

SpecBudget == InitBudget /\ [][NextBudget]_vars

(***************************************************************************)
(* Runs on a Nelder-Mead optimizer.                                        *)
(***************************************************************************)
\* the constructions: two and three parameters of a range of one and a
\* half EPSILON, two parameters of a range of half an EPSILON, and an x0
\* of one entry
NmConfigs ==
  { [dim |-> 2, low |-> 0, high |-> 3, x0 |-> <<0, 1>>],
    [dim |-> 3, low |-> 0, high |-> 3, x0 |-> <<1, 1, 1>>],
    [dim |-> 2, low |-> 0, high |-> 1, x0 |-> <<0, 0>>],
    [dim |-> 2, low |-> 0, high |-> 3, x0 |-> <<0>>] }

\* the optimizer of a construction that NelderMeadOptimizer::new accepted
InitNelderMead ==
  /\ cfg \in {c \in NmConfigs : NelderMeadNew(c).result = "Ok"}
  /\ nelder_mead = NelderMeadNew(cfg).nelder_mead
  /\ asha = AshaNew(CfgScenario)
  /\ next_id = 0
  /\ asked = [x \in {} |-> 0]
  /\ last = [op |-> "init"]
  /\ promoted = {}
  /\ streak = << >>
  /\ panicked = FALSE
  /\ NoHyperband
  /\ NoBudget
  /\ NoOsha

\* the possible results of a call of NelderMeadOptimizer::ask
NmAskOutcomes == NelderMeadAsk(nelder_mead, Generate(next_id).id)

\* a call of NelderMeadOptimizer::ask; Obs::new draws the identifier after
\* adjust succeeded, and the caller keeps the observation it was given
NmAsk ==
  /\ ~panicked
  /\ next_id < MaxRounds
  /\ \E out \in NmAskOutcomes :
       /\ nelder_mead' = out.nelder_mead
       /\ panicked' = out.panicked
       /\ next_id' = IF out.result = "Ok" THEN Generate(next_id).next_id
                                          ELSE next_id
       /\ asked' = IF out.result = "Ok" THEN [x \in {out.id} |-> out.param]
                                        ELSE asked
       /\ last' = [op |-> "ask", result |-> out.result]
  /\ UNCHANGED <<cfg, asha, promoted, streak, hyperband, spent, issuer,
                 budget, osha>>

\* a parameter outside the space of the optimizer
OutsideParam == [i \in 1..nelder_mead.dim |-> nelder_mead.range.high]

\* The observations the caller may tell: under the identifier it was given
\* last or under one the generator has not handed out, with the parameter
\* it was given or one outside the space, and with any value.
NmTellInputs ==
  { [id |-> i, param |-> p, value |-> v] :
      i \in (DOMAIN asked) \cup {Generate(next_id).id},
      p \in {asked[x] : x \in DOMAIN asked} \cup {OutsideParam},
      v \in Values }

\* a call of NelderMeadOptimizer::tell with the observation obs
NmTellOf(obs) ==
  /\ ~panicked
  /\ nelder_mead' = NelderMeadTell(nelder_mead, obs).nelder_mead
  /\ last' = [op |-> "tell",
              result |-> NelderMeadTell(nelder_mead, obs).result]
  /\ UNCHANGED <<cfg, asha, next_id, asked, promoted, streak, panicked,
                 hyperband, spent, issuer, budget, osha>>

NmTell == \E obs \in NmTellInputs : NmTellOf(obs)

NextNelderMead == NmAsk \/ NmTell

SpecNelderMead == InitNelderMead /\ [][NextNelderMead]_vars

\* the observation ask returned last, evaluated to the value v
Returned(v) ==
  [id |-> nelder_mead.evaluating, param |-> asked[nelder_mead.evaluating],
   value |-> v]

\* a caller that works in rounds: it asks when nothing is outstanding ...
NmAskRound == nelder_mead.evaluating = NoId /\ NmAsk

\* ... and tells the observation it was given with a value
NmTellRound ==
  /\ nelder_mead.evaluating # NoId
  /\ \E v \in Values : NmTellOf(Returned(v))

NextRounds == NmAskRound \/ NmTellRound

SpecRounds == InitNelderMead /\ [][NextRounds]_vars

(***************************************************************************)
(* Runs on an OSHA optimizer.                                              *)
(***************************************************************************)
\* the min_evals the optimizer is made with: the default of
\* OshaOptimizer::new, and small ones
OshaConfigs == { [min_evals |-> m] : m \in {1, 2, 10} }

InitOsha ==
  /\ cfg \in OshaConfigs
  /\ osha = OshaNew(cfg.min_evals)
  /\ asha = AshaNew(CfgScenario)
  /\ next_id = 0
  /\ asked = [x \in {} |-> 0]
  /\ last = [op |-> "init"]
  /\ promoted = {}
  /\ streak = << >>
  /\ panicked = FALSE
  /\ NoHyperband
  /\ NoBudget
  /\ NoNelderMead

\* the results of a call of OshaOptimizer::ask in the current state
OshaAskOutcomes == { OshaAsk(osha, next_id, some) : some \in BOOLEAN }

\* a call of OshaOptimizer::ask
OshaAskCall ==
  /\ ~panicked
  /\ \E out \in OshaAskOutcomes :
       /\ out.next_id <= MaxOshaIds
       /\ osha' = out.osha
       /\ next_id' = out.next_id
       /\ last' = [op |-> "ask", result |-> out.result]
  /\ UNCHANGED <<cfg, asha, asked, promoted, streak, panicked, hyperband,
                 spent, issuer, budget, nelder_mead>>

\* the results of a call of OshaOptimizer::tell in the current state, for
\* every value and for failing and succeeding inner and meta optimizers
OshaTellOutcomes ==
  { OshaTell(osha, v, inner_ok, meta_ok) :
      v \in Values, inner_ok \in BOOLEAN, meta_ok \in BOOLEAN }

\* a call of OshaOptimizer::tell
OshaTellCall ==
  /\ ~panicked
  /\ \A j \in DOMAIN osha.active : osha.active[j].evals < MaxEvals
  /\ \E out \in OshaTellOutcomes :
       /\ osha' = out.osha
       /\ panicked' = out.panicked
       /\ last' = [op |-> "tell", result |-> out.result]
  /\ UNCHANGED <<cfg, asha, next_id, asked, promoted, streak, hyperband,
                 spent, issuer, budget, nelder_mead>>

NextOsha == OshaAskCall \/ OshaTellCall

SpecOsha == InitOsha /\ [][NextOsha]_vars

(***************************************************************************)
(* Vocabulary of the properties.                                           *)
(***************************************************************************)
\* rung number k of the optimizer (the empty rung when it does not exist)
RungAt(k) == IF k < Len(asha.rungs) THEN asha.rungs[k + 1] ELSE RungNew

\* the number of entries of the rung, of either kind, with a value strictly
\* smaller than v
StrictlyBetter(rung, v) ==
  Cardinality({ y \in DOMAIN rung : rung[y].value < v })

\* the rung holds a promotable candidate: a suspended entry within the top
\* floor(len / eta) positions of the rung sorted best first
HasPromotable(rung) ==
  \E x \in DOMAIN rung :
    /\ rung[x].tag = "Suspended"
    /\ StrictlyBetter(rung, rung[x].value)
         < Cardinality(DOMAIN rung) \div cfg.eta

\* the rung a consumption c belongs to, by the budgets of the rungs: rung 0
\* below r * eta^(s+1), otherwise the k with
\* r * eta^(k+s) <= c < r * eta^(k+s+1)
RungOfConsumption(c) ==
  IF c < cfg.r * Pow(cfg.eta, cfg.s + 1) THEN 0
  ELSE CHOOSE k \in 1..8 :
         /\ cfg.r * Pow(cfg.eta, k + cfg.s) <= c
         /\ c < cfg.r * Pow(cfg.eta, k + cfg.s + 1)

\* the entries of the rungs before a call that are Finished are the same
\* in the rungs after it
FinishedKept(rungs_after) ==
  \A i \in 1..Len(asha.rungs) : \A y \in DOMAIN asha.rungs[i] :
    asha.rungs[i][y].tag = "Finished" =>
       /\ i <= Len(rungs_after)
       /\ y \in DOMAIN rungs_after[i]
       /\ rungs_after[i][y] = asha.rungs[i][y]

(***************************************************************************)
(* C1.  The scenario r = 10, eta = 2, s = 0, max_budget = 20 with the      *)
(* serial id generator: the first ask returns id 0 with amount 10; after   *)
(* tell(id 0, consumption 10, value 1) the next ask returns the new id 1;  *)
(* after tell(id 1, consumption 10, value 2) the next ask returns id 0     *)
(* again, with amount 20 and the unit value.                               *)
(***************************************************************************)
IsScenario ==
  cfg.r = 10 /\ cfg.eta = 2 /\ cfg.s = 0 /\ cfg.max_budget = 20

\* the rung holds id as a suspended entry told with consumption c, value v
HoldsSuspended(rung, id, c, v) ==
  /\ id \in DOMAIN rung
  /\ rung[id].tag = "Suspended"
  /\ rung[id].value = v
  /\ rung[id].param.budget.consumption = c

\* the state after ask; tell(0, 10, 1)
AfterFirstTell ==
  /\ IsScenario /\ next_id = 1
  /\ last.op = "tell" /\ last.id = 0
  /\ Len(asha.rungs) = 1 /\ DOMAIN asha.rungs[1] = {0}
  /\ HoldsSuspended(asha.rungs[1], 0, 10, 1)

\* the state after ask; tell(0, 10, 1); ask; tell(1, 10, 2)
AfterSecondTell ==
  /\ IsScenario /\ next_id = 2
  /\ last.op = "tell" /\ last.id = 1
  /\ Len(asha.rungs) = 1 /\ DOMAIN asha.rungs[1] = {0, 1}
  /\ HoldsSuspended(asha.rungs[1], 0, 10, 1)
  /\ HoldsSuspended(asha.rungs[1], 1, 10, 2)

C1_Scenario ==
  /\ (IsScenario /\ last.op = "init") =>
        \A out \in AskOutcomes :
          /\ out.kind = "new"
          /\ out.obs.id = 0
          /\ out.obs.param.budget.amount = 10
  /\ AfterFirstTell =>
        \A out \in AskOutcomes :
          /\ out.kind = "new"
          /\ out.obs.id = 1
  /\ AfterSecondTell =>
        \A out \in AskOutcomes :
          /\ out.kind = "promote"
          /\ out.obs.id = 0
          /\ out.obs.param.budget.amount = 20
          /\ out.obs.value = Unit

\* the end of the scenario: id 0 was promoted to amount 20 out of the rung
\* where id 1 still waits with value 2
C1_ScenarioReached ==
  /\ IsScenario /\ next_id = 2
  /\ last.op = "ask" /\ last.kind = "promote" /\ last.id = 0
  /\ asked[0].budget.amount = 20
  /\ asha.rungs[1][0] = Finished(1)
  /\ HoldsSuspended(asha.rungs[1], 1, 10, 2)

(***************************************************************************)
(* C2.  For a caller that tells every observation with a consumption       *)
(* equal to its granted amount, an observation promoted out of rung k is   *)
(* returned with amount min(max_budget, r * eta^(k+1+s)), which is the     *)
(* budget of the next rung after the amount it held (eta times that        *)
(* amount, capped), strictly larger than the amount it held and never      *)
(* above max_budget; so an observation that holds max_budget is never      *)
(* promoted again.                                                         *)
(***************************************************************************)
C2_NextRungBudget ==
  \A out \in AskOutcomes :
    out.kind = "promote" =>
      LET granted == out.obs.param.budget.amount
          held == asked[out.obs.id].budget.amount
      IN  /\ granted = Min(cfg.max_budget,
                           cfg.r * Pow(cfg.eta, out.rung + 1 + cfg.s))
          /\ granted = Min(cfg.max_budget, cfg.eta * held)
          /\ held < granted
          /\ granted <= cfg.max_budget

\* an observation was promoted to max_budget and then told with that
\* consumption
C2_PromotedToMax ==
  /\ last.op = "tell"
  /\ asked[last.id].budget.consumption = cfg.max_budget
  /\ asked[last.id].budget.amount = cfg.max_budget
  /\ \E k \in 0..8 : <<last.id, k>> \in promoted

(***************************************************************************)
(* C3.  Successive asks with no tell in between promote at most            *)
(* floor(N / eta) entries out of a rung that holds N entries, whatever     *)
(* the values are, equal values included.                                  *)
(***************************************************************************)
C3_PromotionFairness ==
  \A k \in 0..(Len(asha.rungs) - 1) :
    Cardinality({ i \in 1..Len(streak) : streak[i] = k })
      <= Cardinality(DOMAIN asha.rungs[k + 1]) \div cfg.eta

(***************************************************************************)
(* C4.  The entry ask promotes out of a rung is a suspended entry whose    *)
(* value is minimal among the suspended entries of the rung, and fewer     *)
(* than floor(len / eta) entries of the rung, of either kind, have a       *)
(* strictly smaller value.                                                 *)
(***************************************************************************)
C4_PromotesBestInTop ==
  \A out \in AskOutcomes :
    out.kind = "promote" =>
      LET x == out.obs.id
          rung == RungAt(out.rung)
      IN  /\ x \in DOMAIN rung
          /\ rung[x].tag = "Suspended"
          /\ \A y \in DOMAIN rung :
               rung[y].tag = "Suspended" => rung[x].value <= rung[y].value
          /\ StrictlyBetter(rung, rung[x].value)
               < Cardinality(DOMAIN rung) \div cfg.eta

\* an entry was promoted out of a rung that holds a worse suspended entry
C4_PromotedOverWorse ==
  /\ last.op = "ask" /\ last.kind = "promote"
  /\ \E y \in DOMAIN RungAt(last.rung) :
       /\ RungAt(last.rung)[y].tag = "Suspended"
       /\ RungAt(last.rung)[y].value > RungAt(last.rung)[last.id].value

(***************************************************************************)
(* C5.  When several rungs hold a promotable candidate, ask promotes out   *)
(* of the highest one: no rung above the rung ask promotes from holds a    *)
(* promotable candidate.                                                   *)
(***************************************************************************)
C5_HighestRungFirst ==
  \A out \in AskOutcomes :
    out.kind = "promote" =>
      \A j \in 0..(Len(asha.rungs) - 1) :
        j > out.rung => ~HasPromotable(RungAt(j))

\* ask promoted out of a rung while a lower rung holds a promotable
\* candidate too
C5_LowerRungWaits ==
  /\ last.op = "ask" /\ last.kind = "promote"
  /\ \E j \in 0..(Len(asha.rungs) - 1) :
       j < last.rung /\ HasPromotable(RungAt(j))

(***************************************************************************)
(* C6.  ask always answers: in every state, whatever number of            *)
(* observations is outstanding, the call has a result.  It returns a new   *)
(* observation exactly when no rung holds a promotable candidate, and the  *)
(* new observation has an identifier never returned before, consumption    *)
(* 0, amount min(max_budget, r * eta^s) and the unit value.                *)
(***************************************************************************)
NothingPromotable ==
  \A k \in 0..(Len(asha.rungs) - 1) : ~HasPromotable(RungAt(k))

C6_AskAlwaysAnswers ==
  /\ AskOutcomes # {}
  /\ \A out \in AskOutcomes :
       /\ (out.kind = "new") <=> NothingPromotable
       /\ out.kind = "new" =>
            /\ out.obs.id \notin DOMAIN asked
            /\ out.obs.param.budget.consumption = 0
            /\ out.obs.param.budget.amount
                 = Min(cfg.max_budget, cfg.r * Pow(cfg.eta, cfg.s))
            /\ out.obs.value = Unit

\* ask returned a new observation of a bracket with s > 0 while suspended
\* entries wait in a rung
C6_NewWhileOthersWait ==
  /\ last.op = "ask" /\ last.kind = "new" /\ cfg.s > 0
  /\ asked[last.id].budget.amount = cfg.r * Pow(cfg.eta, cfg.s)
  /\ \E k \in 0..(Len(asha.rungs) - 1) : SuspendedIds(RungAt(k)) # {}

C8_TerminalTellOnlyForwards ==
  \A obs \in TellInputs : \A out \in AshaTell(asha, obs) :
    obs.param.budget.consumption >= cfg.max_budget =>
      LET k == RungOfConsumption(obs.param.budget.consumption)
          after == out.asha.rungs
      IN  /\ ~out.panicked
          /\ out.forwarded =
               << [id |-> obs.id, param |-> obs.param.inner,
                   value |-> [rung_num |-> k + 1, value |-> obs.value]] >>
          /\ Len(after) >= Len(asha.rungs)
          /\ \A i \in 1..Len(after) :
               IF i <= Len(asha.rungs)
                 THEN after[i] = asha.rungs[i]
                 ELSE DOMAIN after[i] = {}
          /\ out.asha.total_suspended = asha.total_suspended

\* a terminal report with over-consumption arrived while another
\* observation was suspended
C8_TerminalTold ==
  /\ last.op = "tell"
  /\ asked[last.id].budget.consumption > cfg.max_budget
  /\ \E k \in 0..(Len(asha.rungs) - 1) : SuspendedIds(RungAt(k)) # {}

(***************************************************************************)
(* C9.  Every tell whose consumption is < max_budget leaves the told id    *)
(* Suspended in the rung of its consumption and forwards one observation   *)
(* with the number of that rung and the told value, on the first tell of   *)
(* an id and on every later one.                                           *)
(***************************************************************************)
C9_TellLeavesSuspended ==
  \A obs \in TellInputs : \A out \in AshaTell(asha, obs) :
    obs.param.budget.consumption < cfg.max_budget =>
      LET k == RungOfConsumption(obs.param.budget.consumption)
          after == out.asha.rungs
      IN  /\ k < Len(after)
          /\ obs.id \in DOMAIN after[k + 1]
          /\ after[k + 1][obs.id].tag = "Suspended"
          /\ out.forwarded =
               << [id |-> obs.id, param |-> obs.param.inner,
                   value |-> [rung_num |-> k, value |-> obs.value]] >>

(***************************************************************************)
(* C10.  After tell(obs) for an id already present in the rung of its      *)
(* consumption, the entry of the rung for that id holds the value and the  *)
(* budget of obs.                                                          *)
(***************************************************************************)
C10_TellOverwrites ==
  \A obs \in TellInputs : \A out \in AshaTell(asha, obs) :
    LET k == RungOfConsumption(obs.param.budget.consumption)
        entry == out.asha.rungs[k + 1][obs.id]
    IN  (/\ obs.param.budget.consumption < cfg.max_budget
         /\ obs.id \in DOMAIN RungAt(k)) =>
          /\ entry.value = obs.value
          /\ entry.tag = "Suspended" =>
               entry.param.budget = obs.param.budget

(***************************************************************************)
(* C11.  tell is idempotent below max_budget: in every reachable state,    *)
(* for every observation with consumption < max_budget, telling it twice   *)
(* in a row leaves the same rung entries, the same tags and the same       *)
(* suspended count as telling it once.                                     *)
(***************************************************************************)
C11_TellIdempotent ==
  \A obs \in TellInputs :
    obs.param.budget.consumption < cfg.max_budget =>
      \A once \in AshaTell(asha, obs) :
        \A twice \in AshaTell(once.asha, obs) :
          /\ twice.result = "Ok"
          /\ twice.asha.rungs = once.asha.rungs
          /\ twice.asha.total_suspended = once.asha.total_suspended

\* an observation was told and abandoned by the same tell (its entry is
\* Finished without a promotion), and telling it once more changes nothing
C11_AbandonedThenRetold ==
  /\ last.op = "tell"
  /\ asked[last.id].budget.consumption < cfg.max_budget
  /\ <<last.id, last.rung>> \notin promoted
  /\ RungAt(last.rung)[last.id].tag = "Finished"
  /\ \A again \in AshaTell(asha,
                            TellObs(last.id,
                                    asked[last.id].budget.consumption,
                                    RungAt(last.rung)[last.id].value)) :
       again.asha = asha

(***************************************************************************)
(* C12.  Telling an id that is already present in the rung selected by     *)
(* its consumption is reported as an error of kind Bug, and the rung is    *)
(* left unchanged.                                                         *)
(***************************************************************************)
C12_KnownIdIsBug ==
  \A obs \in TellInputs : \A out \in AshaTell(asha, obs) :
    LET k == get_rung_num(asha, obs.param.budget.consumption)
    IN  obs.id \in DOMAIN RungAt(k) =>
          /\ out.result = "Bug"
          /\ out.asha.rungs[k + 1] = RungAt(k)

(***************************************************************************)
(* C13.  Constructing a scheduler with a first budget r * eta^s greater    *)
(* than max_budget, a first budget of 0 or a reduction factor <= 1 is      *)
(* rejected with InvalidInput: no scheduler with such options is created   *)
(* and asked.                                                              *)
(***************************************************************************)
InvalidOptions(c) ==
  \/ c.r * Pow(c.eta, c.s) > c.max_budget
  \/ c.r * Pow(c.eta, c.s) = 0
  \/ c.eta <= 1

\* the result of AshaOptimizer::with_options, which returns Self
WithOptionsResult(c) == "Ok"

C13_InvalidRejected ==
  InvalidOptions(cfg) =>
    /\ WithOptionsResult(cfg) = "InvalidInput"
    /\ last.op # "ask"

(***************************************************************************)
(* C14.  When the consumption reported for each id never decreases         *)
(* (over-consumption beyond the granted amount allowed), an id is          *)
(* Suspended in at most one rung in every reachable state.                 *)
(***************************************************************************)
\* the rung numbers in which id is Suspended
SuspendedRungsOf(id) ==
  { k \in 0..(Len(asha.rungs) - 1) : id \in SuspendedIds(RungAt(k)) }

C14_SuspendedInOneRung ==
  \A id \in DOMAIN asked : Cardinality(SuspendedRungsOf(id)) <= 1

(***************************************************************************)
(* C15.  Tells may arrive in any order: for two observations with          *)
(* distinct ids and distinct values, telling them in either order (no ask  *)
(* in between) succeeds and yields the same rung contents, tags and        *)
(* suspended count, hence the same results of the next ask.                *)
(***************************************************************************)
\* the optimizers that telling first, then second can result in
AfterTells(first, second) ==
  UNION { { then.asha : then \in AshaTell(once.asha, second) } :
            once \in AshaTell(asha, first) }

\* both tells return Ok(())
TellsSucceed(first, second) ==
  \A once \in AshaTell(asha, first) :
    /\ once.result = "Ok"
    /\ \A then \in AshaTell(once.asha, second) : then.result = "Ok"

C15_TellsCommute ==
  \A a \in TellInputs : \A b \in TellInputs :
    (a.id < b.id /\ a.value # b.value) =>
      /\ TellsSucceed(a, b)
      /\ TellsSucceed(b, a)
      /\ AfterTells(a, b) = AfterTells(b, a)
      /\ { AshaAsk(x, Generate(next_id).id) : x \in AfterTells(a, b) }
           = { AshaAsk(y, Generate(next_id).id) : y \in AfterTells(b, a) }

\* two observations of one rung were told with distinct values and the
\* second tell abandoned the worse of the two
C15_BothToldOneAbandoned ==
  /\ last.op = "tell" /\ promoted = {}
  /\ \E x \in DOMAIN RungAt(last.rung) :
       /\ x # last.id
       /\ RungAt(last.rung)[x].value # RungAt(last.rung)[last.id].value
       /\ \E y \in {x, last.id} : RungAt(last.rung)[y].tag = "Finished"
       /\ \E y \in {x, last.id} : RungAt(last.rung)[y].tag = "Suspended"

(***************************************************************************)
(* Vocabulary of the properties of Hyperband.                              *)
(***************************************************************************)
\* bracket i of the Hyperband optimizer
BracketAt(i) == hyperband.brackets[i + 1]

Brackets == 0..(Len(hyperband.brackets) - 1)

\* the ids bracket i has handed out and not been told back
Outstanding(i) ==
  { x \in DOMAIN hyperband.runnings : hyperband.runnings[x] = i }

RECURSIVE Reserved(_)
\* the sum of the remaining amounts of the budgets the caller holds for
\* the ids of S
Reserved(S) ==
  IF S = {} THEN 0
  ELSE LET x == CHOOSE y \in S : TRUE
       IN  Remaining(asked[x].budget) + Reserved(S \ {x})

\* the tell of obs is accepted by the Hyperband optimizer
Accepted(obs) == obs.id \in DOMAIN hyperband.runnings

(***************************************************************************)
(* C16.  Every Hyperband ask delegates to a bracket whose consumption is   *)
(* minimal among all brackets at the moment of the call.                   *)
(***************************************************************************)
C16_AskTakesMinBracket ==
  \A out \in HbAskOutcomes : \A j \in Brackets :
    BracketAt(out.bracket).consumption <= BracketAt(j).consumption

\* ask took bracket 1 although it had consumed already, because bracket 0
\* had consumed more
C16_LaterBracketTaken ==
  /\ last.op = "ask" /\ last.bracket = 1
  /\ BracketAt(1).consumption > Remaining(asked[last.id].budget)
  /\ BracketAt(0).consumption
       > BracketAt(1).consumption - Remaining(asked[last.id].budget)

(***************************************************************************)
(* C17.  Hyperband budget accounting.  ask adds exactly the remaining      *)
(* amount of the returned observation to the consumption of the chosen     *)
(* bracket and changes no other bracket; for a caller that tells each      *)
(* asked observation once, with the granted amount and a consumption that  *)
(* is at least the one it had when asked, the consumption of each bracket  *)
(* equals the consumption its tells have reported (consumption at tell     *)
(* minus consumption at ask, summed) plus the remaining amounts reserved   *)
(* for its outstanding observations.                                       *)
(***************************************************************************)
C17_BudgetAccounting ==
  /\ \A out \in HbAskOutcomes : \A j \in Brackets :
       IF j = out.bracket
         THEN out.hyperband.brackets[j + 1].consumption
                = BracketAt(j).consumption
                    + Remaining(out.obs.param.budget)
         ELSE out.hyperband.brackets[j + 1] = BracketAt(j)
  /\ \A j \in Brackets :
       BracketAt(j).consumption = spent[j + 1] + Reserved(Outstanding(j))

\* a bracket has been told an over-consumption while another of its
\* observations is outstanding
C17_OverConsumedWhileReserved ==
  /\ last.op = "tell" /\ last.result = "Ok"
  /\ Excess(asked[last.id].budget) > 0
  /\ \E x \in Outstanding(last.bracket) : Remaining(asked[x].budget) > 0

(***************************************************************************)
(* C18.  Hyperband tell for an id that no bracket owns fails with          *)
(* UnknownObservation and leaves the consumption and the ASHA state of     *)
(* every bracket and the ownership table unchanged.                        *)
(***************************************************************************)
C18_UnknownIdRejected ==
  \A obs \in HbTellInputs :
    ~Accepted(obs) =>
      \A out \in HyperbandTell(hyperband, obs) :
        /\ out.result = "UnknownObservation"
        /\ out.hyperband.brackets = hyperband.brackets
        /\ out.hyperband.runnings = hyperband.runnings

\* an id never returned by ask was told while a bracket had an
\* outstanding observation
C18_NeverAskedTold ==
  /\ last.op = "tell" /\ last.result = "UnknownObservation"
  /\ last.id \notin DOMAIN asked
  /\ DOMAIN hyperband.runnings # {}

(***************************************************************************)
(* C19.  With the serial id generator every id is issued by exactly one    *)
(* bracket for the whole run: a new id is issued by no bracket before, an  *)
(* id is promoted by the bracket that issued it and is held only in the    *)
(* rungs of that bracket; and every accepted tell is delegated to the      *)
(* bracket that issued the id and changes no other bracket.                *)
(***************************************************************************)
C19_OneBracketPerId ==
  /\ \A out \in HbAskOutcomes :
       IF out.kind = "new"
         THEN out.obs.id \notin DOMAIN issuer
         ELSE /\ out.obs.id \in DOMAIN issuer
              /\ issuer[out.obs.id] = out.bracket
  /\ \A x \in DOMAIN hyperband.runnings :
       x \in DOMAIN issuer /\ hyperband.runnings[x] = issuer[x]
  /\ \A j \in Brackets :
       \A k \in 1..Len(BracketAt(j).asha.rungs) :
         \A x \in DOMAIN BracketAt(j).asha.rungs[k] : issuer[x] = j
  /\ \A obs \in HbTellInputs :
       Accepted(obs) =>
         \A out \in HyperbandTell(hyperband, obs) :
           /\ out.bracket = issuer[obs.id]
           /\ \A j \in Brackets :
                j # out.bracket =>
                  out.hyperband.brackets[j + 1] = BracketAt(j)
           /\ \E t \in AshaTell(BracketAt(out.bracket).asha, obs) :
                out.hyperband.brackets[out.bracket + 1].asha = t.asha

\* a promoted id was told back through the bracket that issued it while
\* the other bracket has issued an id too
C19_PromotedToldBack ==
  /\ last.op = "tell" /\ last.result = "Ok"
  /\ issuer[last.id] = last.bracket
  /\ asked[last.id].budget.amount
       > InitialAmount(BracketAt(last.bracket).asha)
  /\ \E x \in DOMAIN issuer : issuer[x] # last.bracket

(***************************************************************************)
(* C20.  (as stated) No two ask calls on the same scheduler return         *)
(* observations with the same identifier: ask never returns an identifier  *)
(* that an earlier ask has returned.                                       *)
(***************************************************************************)
C20_NoIdTwice ==
  \A out \in HbAskOutcomes : out.obs.id \notin DOMAIN asked

(***************************************************************************)
(* C20.  (as amended) No two ask calls that return a new observation       *)
(* return the same identifier, on a Hyperband optimizer and on each of     *)
(* its ASHA optimizers: the identifier of a new observation was never      *)
(* returned before, and an identifier is returned again only when ask      *)
(* promotes an entry that is Suspended under that identifier.              *)
(***************************************************************************)
C20_NewIdsFresh ==
  /\ \A out \in HbAskOutcomes :
       IF out.kind = "new"
         THEN out.obs.id \notin DOMAIN asked
         ELSE /\ out.obs.id \in DOMAIN asked
              /\ out.obs.id
                   \in SuspendedIds(BracketAt(out.bracket).asha
                                      .rungs[out.rung + 1])
  /\ \A j \in Brackets :
       \A out \in AshaAsk(BracketAt(j).asha, Generate(next_id).id) :
         out.kind = "new" => out.obs.id \notin DOMAIN asked

\* an identifier was returned a second time, by a promotion, after three
\* new identifiers were handed out
C20_ReturnedAgain ==
  /\ last.op = "ask" /\ last.kind = "promote"
  /\ next_id >= 3
  /\ asked[last.id].budget.amount
       > InitialAmount(BracketAt(last.bracket).asha)

(***************************************************************************)
(* C21.  An ask that promotes consumes no identifier of the generator and  *)
(* draws nothing from the inner optimizer: it returns the identifier and   *)
(* the inner parameter of an observation returned before.  The generator   *)
(* advances exactly once per new observation, so that in every state its   *)
(* next identifier is the number of observations created so far.           *)
(***************************************************************************)
C21_PromotionKeepsGenerator ==
  /\ DOMAIN asked = 0..(next_id - 1)
  /\ \A out \in AskOutcomes :
       IF out.kind = "promote"
         THEN /\ out.obs.id \in DOMAIN asked
              /\ out.obs.id < next_id
              /\ out.obs.param.inner = asked[out.obs.id].inner
         ELSE /\ out.obs.id = next_id
              /\ out.obs.param.inner = InnerAsk(next_id).param

\* a promotion was returned after two observations were created, and the
\* generator still stands at two
C21_PromotedWithoutNewId ==
  /\ last.op = "ask" /\ last.kind = "promote"
  /\ next_id = 2 /\ DOMAIN asked = {0, 1}

(***************************************************************************)
(* C26.  The value forwarded to the inner optimizer for a terminal tell    *)
(* (consumption >= max_budget) at rung number k is strictly smaller, in    *)
(* the order of RungValue, than the value forwarded for any non-terminal   *)
(* tell at rung number k, whatever the two raw values are; between         *)
(* forwarded values of equal rung number the raw value decides.            *)
(***************************************************************************)
\* the values forwarded by the possible tells of the current state, each
\* with the rung of the told consumption and whether the tell is terminal
ForwardedValues ==
  UNION { { [value |-> out.forwarded[1].value,
             rung |-> out.rung,
             terminal |-> obs.param.budget.consumption >= cfg.max_budget] :
              out \in { o \in AshaTell(asha, obs) : o.forwarded # << >> } } :
            obs \in TellInputs }

C26_TerminalRanksFirst ==
  \A x \in ForwardedValues : \A y \in ForwardedValues :
    /\ (x.terminal /\ ~y.terminal /\ x.rung = y.rung) =>
          /\ RungValueLess(x.value, y.value)
          /\ ~RungValueLess(y.value, x.value)
    /\ (x.value.rung_num = y.value.rung_num) =>
          (RungValueLess(x.value, y.value) <=> x.value.value < y.value.value)

\* a terminal tell arrived at the rung where another observation, told
\* below max_budget with the best raw value, is suspended
C26_TerminalBesideSuspended ==
  /\ last.op = "tell"
  /\ asked[last.id].budget.consumption >= cfg.max_budget
  /\ \E x \in SuspendedIds(RungAt(last.rung)) :
       /\ x # last.id
       /\ RungAt(last.rung)[x].value = 1

(***************************************************************************)
(* C22.  A Hyperband optimizer built with max_budget B >= 1 and reduction  *)
(* factor eta >= 2 owns exactly floor(log_eta(B)) + 1 brackets; bracket i  *)
(* is an ASHA optimizer with s = i, all brackets share r, eta and          *)
(* max_budget, and every bracket starts with consumption 0.                *)
(***************************************************************************)
C22_BracketCount ==
  last.op = "with_options" =>
    /\ Len(hyperband.brackets) = ExactLogFloor(cfg.max_budget, cfg.eta) + 1
    /\ \A i \in 0..(Len(hyperband.brackets) - 1) :
         /\ hyperband.brackets[i + 1].consumption = 0
         /\ hyperband.brackets[i + 1].asha.options.s = i
         /\ hyperband.brackets[i + 1].asha.options.r = cfg.r
         /\ hyperband.brackets[i + 1].asha.options.eta = cfg.eta
         /\ hyperband.brackets[i + 1].asha.max_budget = cfg.max_budget

(***************************************************************************)
(* C27.  Rung selection by consumption: a consumption c is placed in rung  *)
(* 0 when c < r * eta^(s+1) and otherwise in the rung k with               *)
(* r * eta^(k+s) <= c < r * eta^(k+s+1); the rung number is                *)
(* non-decreasing in c.                                                    *)
(***************************************************************************)
C27_RungByInterval ==
  last.op = "get_rung_num" =>
    /\ last.rung = RungOfConsumption(last.consumption)
    /\ \A c \in 0..last.consumption : get_rung_num(asha, c) <= last.rung

(***************************************************************************)
(* C23 - C25: the Budget.                                                  *)
(***************************************************************************)
\* the outcomes of every mutator call on the current budget, with the
\* name and the argument of the call
BudgetCalls ==
  UNION { { [op |-> "consume", arg |-> a, out |-> o] :
              o \in consume(budget, a) } \cup
          { [op |-> "set_consumption", arg |-> a, out |-> o] :
              o \in set_consumption(budget, a) } \cup
          { [op |-> "set_soft_limit", arg |-> a, out |-> o] :
              o \in set_soft_limit(budget, a) } \cup
          { [op |-> "set_hard_limit", arg |-> a, out |-> o] :
              o \in set_hard_limit(budget, a) } : a \in Words }

\* the precondition the documentation of a mutator states, on integers
Documented(c) ==
  CASE c.op = "consume" -> budget.consumption + c.arg <= budget.hard_limit
    [] c.op = "set_consumption" ->
         budget.consumption <= c.arg /\ c.arg <= budget.hard_limit
    [] c.op = "set_soft_limit" -> c.arg <= budget.hard_limit
    [] c.op = "set_hard_limit" ->
         budget.soft_limit <= c.arg /\ budget.consumption <= c.arg

\* C23: a new budget has consumption 0, and for every budget and every n
\* whose sum with the consumption is a u64, consume(n) succeeds and raises
\* the consumption by exactly n, beyond the granted amount too.
C23_ConsumeNeverFails ==
  /\ last.op = "init" => budget.consumption = 0
  /\ \A n \in Words :
       budget.consumption + n < Word =>
         \A out \in consume(budget, n) :
           /\ out.result = "Ok"
           /\ out.budget.consumption = budget.consumption + n

\* C24: every mutator returns InvalidInput exactly when its documented
\* precondition fails, and a call that does not succeed leaves the budget
\* as it was.
C24_DocumentedPreconditions ==
  \A c \in BudgetCalls :
    /\ c.out.result = "InvalidInput" <=> ~Documented(c)
    /\ c.out.result # "InvalidInput" => c.out.result = "Ok"
    /\ c.out.result # "Ok" => c.out.budget = budget

\* C25: no call of a mutator, successful or failing, lowers the
\* consumption, whatever unsigned words it is given.
C25_ConsumptionOnlyIncreases ==
  \A c \in BudgetCalls : c.out.budget.consumption >= budget.consumption

(***************************************************************************)
(* C30.  When several Hyperband brackets are tied at the minimal           *)
(* consumption, ask delegates to the tied bracket of the lowest index: the *)
(* first ask on a fresh optimizer goes to bracket 0, and the bracket is a  *)
(* function of the state, so that two optimizers given the same calls      *)
(* choose the same brackets.                                               *)
(***************************************************************************)
\* the brackets of minimal consumption
MinimalBrackets ==
  { i \in Brackets :
      \A j \in Brackets : BracketAt(i).consumption <= BracketAt(j).consumption }

Kept(nm) ==
  /\ nm.simplex = nelder_mead.simplex
  /\ nm.state = nelder_mead.state
  /\ nm.evaluating = nelder_mead.evaluating

\* C28: ask while an observation is outstanding fails with Other; tell
\* under another identifier than the outstanding one, or with none
\* outstanding, fails with UnknownObservation; and an ask or a tell that
\* fails leaves the simplex, the phase and the outstanding identifier as
\* they were.
C28_StrictAlternation ==
  /\ nelder_mead.evaluating # NoId =>
       \A out \in NmAskOutcomes : out.result = "Other"
  /\ \A obs \in NmTellInputs :
       obs.id # nelder_mead.evaluating =>
         NelderMeadTell(nelder_mead, obs).result = "UnknownObservation"
  /\ \A out \in NmAskOutcomes :
       out.result # "Ok" => Kept(out.nelder_mead)
  /\ \A obs \in NmTellInputs :
       NelderMeadTell(nelder_mead, obs).result # "Ok" =>
         Kept(NelderMeadTell(nelder_mead, obs).nelder_mead)

\* C29: for a caller that works in rounds every call has succeeded, and
\* in every phase the next call of the round succeeds: ask when nothing
\* is outstanding, tell of the returned observation with any value
\* otherwise.
C29_RoundsNeverStuck ==
  /\ last.op # "init" => last.result = "Ok"
  /\ nelder_mead.evaluating = NoId =>
       \A out \in NmAskOutcomes : out.result = "Ok"
  /\ nelder_mead.evaluating # NoId =>
       \A v \in Values :
         NelderMeadTell(nelder_mead, Returned(v)).result = "Ok"

(***************************************************************************)
(* C31.  Whenever the Nelder-Mead optimizer recomputes its centroid, and   *)
(* whenever its phase is Reflect, the simplex is sorted by value in        *)
(* ascending order, after an acceptance and after a completed shrink.      *)
(***************************************************************************)
\* the values of the simplex ascend
SimplexSorted(nm) ==
  \A i \in 1..(Len(nm.simplex) - 1) : nm.simplex[i] <= nm.simplex[i + 1]

C31_SortedInReflect ==
  nelder_mead.state.phase = "Reflect" => SimplexSorted(nelder_mead)

(***************************************************************************)
(* C32 - C35: the suspended entries of ASHA and their counter.             *)
(***************************************************************************)
RECURSIVE CountSuspended(_)
\* the number of Suspended entries over all rungs
CountSuspended(rungs) ==
  IF Len(rungs) = 0 THEN 0
  ELSE Cardinality(SuspendedIds(rungs[Len(rungs)]))
         + CountSuspended(SubSeq(rungs, 1, Len(rungs) - 1))

\* the tell of obs takes the branch that inserts a new entry
IsFresh(obs) ==
  /\ obs.param.budget.consumption < asha.max_budget
  /\ obs.id \notin
       DOMAIN RungAt(get_rung_num(asha, obs.param.budget.consumption))

\* the rungs once the tell of obs has inserted its entry, before the
\* abandonment loop
AfterInsert(obs) ==
  LET k == get_rung_num(asha, obs.param.budget.consumption)
  IN  [RungsGetMut(asha.rungs, k) EXCEPT ![k + 1] =
         RungInsert(@, obs.id, Suspended(obs.param, obs.value))]

\* rungs `after` is rungs `before` with one entry, suspended and of the
\* worst value among the suspended entries of the lowest rung that holds
\* one, turned into a Finished entry of the same value
WorstOfLowestFinished(before, after) ==
  \E i \in 1..Len(before) : \E x \in SuspendedIds(before[i]) :
    /\ \A j \in 1..(i - 1) : SuspendedIds(before[j]) = {}
    /\ \A y \in SuspendedIds(before[i]) :
         before[i][y].value <= before[i][x].value
    /\ after = [before EXCEPT ![i][x] = Finished(before[i][x].value)]

\* C32: the counter total_suspended equals the number of Suspended entries
\* over all rungs, in every reachable state.
C32_CounterIsExact ==
  asha.total_suspended = CountSuspended(asha.rungs)

\* C33: after every tell at most max_suspended entries are Suspended, and
\* a tell whose insertion pushes the number above turns the worst
\* suspended entry of the lowest rung that has one into a Finished entry
\* of the same value.
C33_SuspendedBounded ==
  /\ CountSuspended(asha.rungs) <= cfg.max_suspended
  /\ \A obs \in TellInputs : \A out \in AshaTell(asha, obs) :
       /\ CountSuspended(out.asha.rungs) <= cfg.max_suspended
       /\ (IsFresh(obs)
             /\ CountSuspended(AfterInsert(obs)) > cfg.max_suspended)
            => WorstOfLowestFinished(AfterInsert(obs), out.asha.rungs)

\* an entry is Finished in its rung without having been promoted out of it
AbandonedEntry(i, x) ==
  /\ x \in DOMAIN asha.rungs[i]
  /\ asha.rungs[i][x].tag = "Finished"
  /\ <<x, i - 1>> \notin promoted

\* a tell found max_suspended entries suspended, inserted one more and
\* abandoned one of another id
C33_TellAbandonedOther ==
  /\ last.op = "tell"
  /\ CountSuspended(asha.rungs) = cfg.max_suspended
  /\ last.id \in SuspendedIds(RungAt(last.rung))
  /\ \E i \in 1..Len(asha.rungs) : \E x \in DOMAIN asha.rungs[i] :
       x # last.id /\ AbandonedEntry(i, x)

\* C34: a tell abandons an entry only when the number of Suspended entries
\* after its insertion exceeds max_suspended.
C34_AbandonsOnlyAboveLimit ==
  \A obs \in TellInputs : \A out \in AshaTell(asha, obs) :
    (IsFresh(obs) /\ out.asha.rungs # AfterInsert(obs))
      => CountSuspended(AfterInsert(obs)) > cfg.max_suspended

\* C35: the abandonment loop of tell never reaches unreachable!(): when
\* abandone_one is called some rung holds a Suspended entry.
C35_AbandonFindsEntry ==
  /\ ~panicked
  /\ \A obs \in TellInputs :
       LET k == get_rung_num(asha, obs.param.budget.consumption)
           inserted == IF IsFresh(obs) THEN AfterInsert(obs)
                                       ELSE RungsGetMut(asha.rungs, k)
           total == asha.total_suspended + (IF IsFresh(obs) THEN 1 ELSE 0)
       IN  cfg.max_suspended < total => SuspendedRungs(inserted) # {}

\* a tell has called abandone_one: the told entry is Finished in its rung
\* without a promotion
C35_Abandoned ==
  /\ last.op = "tell"
  /\ last.rung < Len(asha.rungs)
  /\ AbandonedEntry(last.rung + 1, last.id)

(***************************************************************************)
(* C36.  Every observation ask returns, new or promoted, has a budget      *)
(* amount of at most max_budget and strictly above its consumption,        *)
(* whatever consumptions below max_budget earlier tells reported.          *)
(***************************************************************************)
C36_PositiveRemaining ==
  \A out \in AskOutcomes :
    /\ out.obs.param.budget.amount <= cfg.max_budget
    /\ out.obs.param.budget.amount > out.obs.param.budget.consumption

(***************************************************************************)
(* C37.  The ownership table of Hyperband holds exactly the ids that ask   *)
(* has returned and that were not told since: it is empty after the        *)
(* construction, ask adds the returned id and nothing else, and tell       *)
(* looks at the table alone: for an id of the table it removes that id     *)
(* and nothing else and does not answer UnknownObservation, for any other  *)
(* id it answers UnknownObservation and leaves the table as it is.  A      *)
(* second tell of the same id with no ask that returns it in between       *)
(* fails with UnknownObservation.                                          *)
(***************************************************************************)
C37_TableIsOutstanding ==
  /\ last.op = "init" => DOMAIN hyperband.runnings = {}
  /\ last.op = "ask" => last.id \in DOMAIN hyperband.runnings
  /\ last.op = "tell" => last.id \notin DOMAIN hyperband.runnings
  /\ \A out \in HbAskOutcomes :
       DOMAIN out.hyperband.runnings
         = (DOMAIN hyperband.runnings) \cup {out.obs.id}
  /\ \A obs \in HbTellInputs :
       \A out \in HyperbandTell(hyperband, obs) :
         /\ (out.result = "UnknownObservation")
              <=> (obs.id \notin DOMAIN hyperband.runnings)
         /\ DOMAIN out.hyperband.runnings
              = (DOMAIN hyperband.runnings) \ {obs.id}
         /\ \A snd \in HyperbandTell(out.hyperband, obs) :
              /\ snd.result = "UnknownObservation"
              /\ snd.hyperband = out.hyperband

\* an id that ask has returned and that was told since is told a second
\* time and rejected, while another id is held in the table
C37_ToldTwice ==
  /\ last.op = "tell" /\ last.result = "UnknownObservation"
  /\ last.id \in DOMAIN asked
  /\ DOMAIN hyperband.runnings # {}

(***************************************************************************)
(* C38.  The consumption counter of a Hyperband bracket never underflows   *)
(* in tell.  The caller tells each asked observation with the granted      *)
(* amount unchanged and a consumption that is at least the one it had      *)
(* when asked; then, in every interleaving of asks and tells across the    *)
(* brackets, the remaining amount that tell subtracts is at most the       *)
(* consumption of the bracket that owns the id, and no tell panics.        *)
(***************************************************************************)
C38_NoUnderflowInTell ==
  /\ ~panicked
  /\ \A obs \in HbTellInputs :
       Accepted(obs) =>
         /\ Remaining(obs.param.budget)
              <= BracketAt(Owner(hyperband, obs.id)).consumption
         /\ \A out \in HyperbandTell(hyperband, obs) : out.result # "panic"

\* a tell that left budget unconsumed was accepted by one bracket while
\* the other bracket holds an observation of its own
C38_RemainingSubtracted ==
  /\ last.op = "tell" /\ last.result = "Ok"
  /\ Remaining(asked[last.id].budget) > 0
  /\ \E x \in DOMAIN hyperband.runnings :
       hyperband.runnings[x] # last.bracket

(***************************************************************************)
(* C39.  Every Budget reachable from Budget::new by consume,               *)
(* set_consumption, set_soft_limit and set_hard_limit calls has            *)
(* soft_limit <= hard_limit and consumption <= hard_limit, so the          *)
(* subtraction of hard_remaining does not underflow; soft_remaining        *)
(* returns Ok(soft_limit - consumption) when consumption <= soft_limit     *)
(* and Err(consumption - soft_limit) otherwise.  Every call keeps this.    *)
(***************************************************************************)
C39_LimitsOrdered ==
  /\ budget.soft_limit <= budget.hard_limit
  /\ budget.consumption <= budget.hard_limit
  /\ hard_remaining(budget) \in Words
  /\ budget.consumption + hard_remaining(budget) = budget.hard_limit
  /\ soft_remaining(budget).amount \in Words
  /\ IF budget.consumption <= budget.soft_limit
       THEN /\ soft_remaining(budget).ok
            /\ budget.consumption + soft_remaining(budget).amount
                 = budget.soft_limit
       ELSE /\ ~soft_remaining(budget).ok
            /\ budget.soft_limit + soft_remaining(budget).amount
                 = budget.consumption
  /\ \A c \in BudgetCalls :
       /\ c.out.budget.soft_limit <= c.out.budget.hard_limit
       /\ c.out.budget.consumption <= c.out.budget.hard_limit
       /\ hard_remaining(c.out.budget) \in Words

\* the hard limit was lowered to the consumption of a budget that has
\* consumed beyond its soft limit
C39_HardLimitLowered ==
  /\ last.op = "set_hard_limit" /\ last.result = "Ok"
  /\ budget.soft_limit < budget.consumption
  /\ budget.hard_limit = budget.consumption
  /\ budget.hard_limit < cfg.limit
  /\ ~soft_remaining(budget).ok

(***************************************************************************)
(* C40.  OshaOptimizer::tell never panics while it activates an optimizer  *)
(* again: whenever activate examines rung k and a stored optimizer has a   *)
(* rung >= k, a stored optimizer has exactly the rung k, so that the       *)
(* unreachable!() of the position lookup is not reached, and the loop      *)
(* `while !activate()` terminates; for every sequence of told values,      *)
(* equal best values included.                                             *)
(***************************************************************************)
C40_ActivateNeverPanics ==
  /\ ~panicked
  /\ \A out \in OshaTellOutcomes : out.result \notin {"panic", "diverges"}

\* tell has stored the active optimizer and activate has promoted a
\* stored optimizer whose best value of the rung equals the best value of
\* another stored optimizer
C40_PromotedOnTie ==
  /\ last.op = "tell" /\ last.result = "Ok"
  /\ osha.active # << >>
  /\ \A j \in DOMAIN osha.active :
       /\ osha.active[j].rung > 0
       /\ \E k \in DOMAIN osha.optimizers :
            /\ osha.optimizers[k].bests # << >>
            /\ osha.optimizers[k].bests[1] = osha.active[j].bests[1]
=============================================================================
